---------------------------- MODULE Spec2Model ----------------------------
(***************************************************************************)
(* Model of the unified-diff engine of ai-code-review (lib/diff:           *)
(* splitDiffByFiles, parseDiff, summarizeDiff) and of its consumer         *)
(* processDiffToGiteaFiles (services/giteaService.ts).                     *)
(*                                                                         *)
(* A JavaScript string is a sequence of one-character strings, so that     *)
(* startsWith, substring, split and the two regular expressions are        *)
(* computed on characters.  parseDiff's line loop is run one iteration per *)
(* step; the other functions are applied as whole calls.                   *)
(***************************************************************************)
EXTENDS Integers, Sequences, FiniteSets, TLC

(***************************************************************************)
(* Bounds of the model.                                                    *)
(***************************************************************************)
\* The longest input, in lines, built from CoreLines.
MaxLines == 3

\* The longest input, in lines before the final line break, built from DeepLines.
MaxDeepLines == 4

(***************************************************************************)
(* String primitives.                                                      *)
(***************************************************************************)
\* null / undefined
Null == [nil |-> TRUE]

\* String.prototype.startsWith
StartsWith(s, p) == Len(s) >= Len(p) /\ SubSeq(s, 1, Len(p)) = p

\* String.prototype.substring(n): the string from the 0-based offset n on
Substring(s, n) == SubSeq(s, n + 1, Len(s))

\* String.prototype.substring(a, b) with 0-based offsets a <= b <= length
Substring2(s, a, b) == SubSeq(s, a + 1, b)

\* the literal lit occurs in s at the 1-based position p
LitAt(s, p, lit) == p + Len(lit) - 1 <= Len(s) /\ SubSeq(s, p, p + Len(lit) - 1) = lit

\* String.prototype.includes
Includes(s, lit) == \E p \in 1..Len(s) : LitAt(s, p, lit)

\* the least element of a non-empty set of integers
Least(S) == CHOOSE m \in S : \A n \in S : m <= n

\* the 1-based position of the first "\n" of s at or after p, Len(s)+1 if none
NextNewline(s, p) ==
    LET breaks == {q \in p..Len(s) : s[q] = "\n"}
    IN  IF breaks = {} THEN Len(s) + 1 ELSE Least(breaks)

\* String.prototype.split('\n'): never empty, "" splits to <<"">>
RECURSIVE SplitFrom(_, _)
SplitFrom(s, p) ==
    LET q == NextNewline(s, p)
    IN  IF q > Len(s) THEN << SubSeq(s, p, Len(s)) >>
        ELSE << SubSeq(s, p, q - 1) >> \o SplitFrom(s, q + 1)

SplitLines(s) == SplitFrom(s, 1)

Digits == {"0", "1", "2", "3", "4", "5", "6", "7", "8", "9"}

DigitValue(c) ==
    CASE c = "0" -> 0 [] c = "1" -> 1 [] c = "2" -> 2 [] c = "3" -> 3
      [] c = "4" -> 4 [] c = "5" -> 5 [] c = "6" -> 6 [] c = "7" -> 7
      [] c = "8" -> 8 [] c = "9" -> 9

\* parseInt of a non-empty string of decimal digits
RECURSIVE ParseInt(_)
ParseInt(ds) ==
    IF Len(ds) = 1 THEN DigitValue(ds[1])
    ELSE 10 * ParseInt(SubSeq(ds, 1, Len(ds) - 1)) + DigitValue(ds[Len(ds)])

\* \d* taken greedily from position p: the first position at or after p that
\* holds no digit
RECURSIVE DigitsEnd(_, _)
DigitsEnd(s, p) ==
    IF p <= Len(s) /\ s[p] \in Digits THEN DigitsEnd(s, p + 1) ELSE p

\* ,? taken greedily at position p
CommaEnd(s, p) == IF p <= Len(s) /\ s[p] = "," THEN p + 1 ELSE p

(***************************************************************************)
(* The hunk-header pattern of line.match: "@@ -", one or more digits       *)
(* (group 1), an optional comma, any digits (group 2), " +", one or more   *)
(* digits (group 3), an optional comma, any digits (group 4), " @@".  The  *)
(* search is unanchored: the leftmost match wins, the groups are greedy.   *)
(***************************************************************************)
\* The attempt at position p: the four groups, or Null.
HunkHeaderAt(s, p) ==
    LET a == p + 4
        b == DigitsEnd(s, a)
        c == CommaEnd(s, b)
        d == DigitsEnd(s, c)
        e == d + 2
        f == DigitsEnd(s, e)
        g == CommaEnd(s, f)
        h == DigitsEnd(s, g)
    IN  IF /\ LitAt(s, p, <<"@", "@", " ", "-">>)
           /\ b > a
           /\ LitAt(s, d, <<" ", "+">>)
           /\ f > e
           /\ LitAt(s, h, <<" ", "@", "@">>)
        THEN [g1 |-> SubSeq(s, a, b - 1), g2 |-> SubSeq(s, c, d - 1),
              g3 |-> SubSeq(s, e, f - 1), g4 |-> SubSeq(s, g, h - 1)]
        ELSE Null

HunkHeaderMatch(line) ==
    LET found == {p \in 1..Len(line) : HunkHeaderAt(line, p) # Null}
    IN  IF found = {} THEN Null ELSE HunkHeaderAt(line, Least(found))

(***************************************************************************)
(* parseDiff: the state of the line loop is the record                     *)
(*   [diffs, currentDiff, currentChunk].                                   *)
(* currentChunk is a reference to a chunk object that was pushed to the    *)
(* chunks of a FileDiff: it is modelled as the position of that object,    *)
(* [file |-> n, chunk |-> m], file n being the n-th FileDiff created       *)
(* (diffs[n] once pushed, currentDiff while n = Len(diffs) + 1).           *)
(***************************************************************************)
NewFileDiff ==
    [oldFile |-> <<>>, newFile |-> <<>>, isDeleted |-> FALSE, isNew |-> FALSE,
     chunks |-> <<>>]

\* a variant of NewChunk that takes a count of 0 for an omitted count
NewChunkFalsyZero(m) ==
    [oldStart |-> ParseInt(m.g1),
     oldLines |-> IF m.g2 # <<>> /\ ParseInt(m.g2) # 0 THEN ParseInt(m.g2) ELSE 1,
     newStart |-> ParseInt(m.g3),
     newLines |-> IF m.g4 # <<>> /\ ParseInt(m.g4) # 0 THEN ParseInt(m.g4) ELSE 1,
     lines    |-> <<>>]

NewChunk(m) ==
    [oldStart |-> ParseInt(m.g1),
     oldLines |-> IF m.g2 # <<>> THEN ParseInt(m.g2) ELSE 1,
     newStart |-> ParseInt(m.g3),
     newLines |-> IF m.g4 # <<>> THEN ParseInt(m.g4) ELSE 1,
     lines    |-> <<>>]

\* the chunk object a reference points to
ChunkOf(P, ref) ==
    IF ref.file <= Len(P.diffs) THEN P.diffs[ref.file].chunks[ref.chunk]
    ELSE P.currentDiff.chunks[ref.chunk]

\* a write through the reference
WithChunk(P, ref, ch) ==
    IF ref.file <= Len(P.diffs)
    THEN [P EXCEPT !.diffs[ref.file].chunks[ref.chunk] = ch]
    ELSE [P EXCEPT !.currentDiff.chunks[ref.chunk] = ch]

\* AddedLine with the fault of numbering the old side as well
AddedLineBothNumbers(ch, line) ==
    [ch EXCEPT !.lines = Append(@, [type |-> "added", content |-> Substring(line, 1),
                                    oldLineNumber |-> ch.oldStart,
                                    newLineNumber |-> ch.newStart]),
               !.newStart = @ + 1]

AddedLine(ch, line) ==
    [ch EXCEPT !.lines = Append(@, [type |-> "added", content |-> Substring(line, 1),
                                    newLineNumber |-> ch.newStart]),
               !.newStart = @ + 1]

RemovedLine(ch, line) ==
    [ch EXCEPT !.lines = Append(@, [type |-> "removed", content |-> Substring(line, 1),
                                    oldLineNumber |-> ch.oldStart]),
               !.oldStart = @ + 1]

\* ContextLine with the fault of leaving the new-side counter where it is
ContextLineOldOnly(ch, line) ==
    [ch EXCEPT !.lines = Append(@, [type |-> "context", content |-> Substring(line, 1),
                                    oldLineNumber |-> ch.oldStart,
                                    newLineNumber |-> ch.newStart]),
               !.oldStart = @ + 1]

ContextLine(ch, line) ==
    [ch EXCEPT !.lines = Append(@, [type |-> "context", content |-> Substring(line, 1),
                                    oldLineNumber |-> ch.oldStart,
                                    newLineNumber |-> ch.newStart]),
               !.oldStart = @ + 1,
               !.newStart = @ + 1]

\* the content-line branch, taken when currentChunk is set
ContentLine(P, line) ==
    LET ch == ChunkOf(P, P.currentChunk)
    IN  IF StartsWith(line, <<"+">>) THEN WithChunk(P, P.currentChunk, AddedLine(ch, line))
        ELSE IF StartsWith(line, <<"-">>) THEN WithChunk(P, P.currentChunk, RemovedLine(ch, line))
        ELSE IF StartsWith(line, <<" ">>) THEN WithChunk(P, P.currentChunk, ContextLine(ch, line))
        ELSE P

\* the '@@ ' branch
HunkHeaderLine(P, line) ==
    LET m == HunkHeaderMatch(line)
    IN  IF m # Null
        THEN [P EXCEPT !.currentDiff.chunks = Append(@, NewChunk(m)),
                       !.currentChunk = [file  |-> Len(P.diffs) + 1,
                                         chunk |-> Len(P.currentDiff.chunks) + 1]]
        ELSE P

\* the 'diff --git ' branch
FileHeaderLine(P) ==
    [P EXCEPT !.diffs = IF P.currentDiff # Null THEN Append(@, P.currentDiff) ELSE @,
              !.currentDiff = NewFileDiff]

\* a "+++ /dev/null" line: the file is deleted
DeletedFileLine(P) == [P EXCEPT !.currentDiff.isDeleted = TRUE]

\* a variant of NewFileLine that keeps the two flags exclusive
NewFileLineExclusive(P) == [P EXCEPT !.currentDiff.isNew = TRUE, !.currentDiff.isDeleted = FALSE]

\* a "--- /dev/null" line: the file is new
NewFileLine(P) == [P EXCEPT !.currentDiff.isNew = TRUE]

\* one iteration of the loop over lines
ParseLine(P, line) ==
    IF StartsWith(line, <<"d", "i", "f", "f", " ", "-", "-", "g", "i", "t", " ">>) THEN FileHeaderLine(P)
    ELSE IF P.currentDiff = Null THEN P
    ELSE IF StartsWith(line, <<"-", "-", "-", " ", "a", "/">>) THEN [P EXCEPT !.currentDiff.oldFile = Substring(line, 6)]
    ELSE IF StartsWith(line, <<"+", "+", "+", " ", "b", "/">>) THEN [P EXCEPT !.currentDiff.newFile = Substring(line, 6)]
    ELSE IF StartsWith(line, <<"+", "+", "+", " ", "/", "d", "e", "v", "/", "n", "u", "l", "l">>) THEN DeletedFileLine(P)
    ELSE IF StartsWith(line, <<"-", "-", "-", " ", "/", "d", "e", "v", "/", "n", "u", "l", "l">>) THEN NewFileLine(P)
    ELSE IF \/ StartsWith(line, <<"i", "n", "d", "e", "x", " ">>)
            \/ StartsWith(line, <<"n", "e", "w", " ", "f", "i", "l", "e", " ", "m", "o", "d", "e", " ">>)
            \/ StartsWith(line, <<"d", "e", "l", "e", "t", "e", "d", " ", "f", "i", "l", "e", " ", "m", "o", "d", "e", " ">>) THEN P
    ELSE IF StartsWith(line, <<"@", "@", " ">>) THEN HunkHeaderLine(P, line)
    ELSE IF P.currentChunk # Null THEN ContentLine(P, line)
    ELSE P

\* the state before the loop
ParseStart == [diffs |-> <<>>, currentDiff |-> Null, currentChunk |-> Null]

\* a variant of ParseFinish that returns without the last push
ParseFinishNoPush(P) == P.diffs

\* after the loop: push the last diff, return diffs
ParseFinish(P) == IF P.currentDiff # Null THEN Append(P.diffs, P.currentDiff) ELSE P.diffs

RECURSIVE ParseLoop(_, _, _)
ParseLoop(P, ls, k) ==
    IF k > Len(ls) THEN P ELSE ParseLoop(ParseLine(P, ls[k]), ls, k + 1)

\* parseDiff as one call
parseDiff(s) == ParseFinish(ParseLoop(ParseStart, SplitLines(s), 1))

(***************************************************************************)
(* summarizeDiff.                                                          *)
(***************************************************************************)
\* CountLines with the fault of counting context lines as well
RECURSIVE CountLinesAndContext(_, _, _)
CountLinesAndContext(ls, t, k) ==
    IF k > Len(ls) THEN 0
    ELSE (IF ls[k].type \in {t, "context"} THEN 1 ELSE 0) + CountLinesAndContext(ls, t, k + 1)

\* the number of lines of type t in a chunk's lines, counted from position k
RECURSIVE CountLines(_, _, _)
CountLines(ls, t, k) ==
    IF k > Len(ls) THEN 0
    ELSE (IF ls[k].type = t THEN 1 ELSE 0) + CountLines(ls, t, k + 1)

\* the two inner loops over diff.chunks and chunk.lines, for one type
RECURSIVE CountChunks(_, _, _)
CountChunks(chunks, t, k) ==
    IF k > Len(chunks) THEN 0
    ELSE CountLines(chunks[k].lines, t, 1) + CountChunks(chunks, t, k + 1)

\* FileChange with the fault of naming a deleted file by its new path
FileChangeNewPath(diff) ==
    [file       |-> IF diff.isDeleted THEN diff.newFile ELSE diff.oldFile,
     insertions |-> CountChunks(diff.chunks, "added", 1),
     deletions  |-> CountChunks(diff.chunks, "removed", 1),
     isDeleted  |-> diff.isDeleted,
     isNew      |-> diff.isNew]

\* the entry pushed to fileChanges for one FileDiff
FileChange(diff) ==
    [file       |-> IF diff.isDeleted THEN diff.oldFile ELSE diff.newFile,
     insertions |-> CountChunks(diff.chunks, "added", 1),
     deletions  |-> CountChunks(diff.chunks, "removed", 1),
     isDeleted  |-> diff.isDeleted,
     isNew      |-> diff.isNew]

\* SummarizeLoop with the fault of assigning totalDeletions instead of adding
RECURSIVE SummarizeLoopAssign(_, _, _)
SummarizeLoopAssign(ds, k, acc) ==
    IF k > Len(ds) THEN acc
    ELSE LET fc == FileChange(ds[k])
         IN  SummarizeLoopAssign(ds, k + 1,
                 [totalInsertions |-> acc.totalInsertions + fc.insertions,
                  totalDeletions  |-> fc.deletions,
                  fileChanges     |-> Append(acc.fileChanges, fc)])

\* the loop over diffs, with its accumulators totalInsertions, totalDeletions
\* and fileChanges
RECURSIVE SummarizeLoop(_, _, _)
SummarizeLoop(ds, k, acc) ==
    IF k > Len(ds) THEN acc
    ELSE LET fc == FileChange(ds[k])
         IN  SummarizeLoop(ds, k + 1,
                 [totalInsertions |-> acc.totalInsertions + fc.insertions,
                  totalDeletions  |-> acc.totalDeletions + fc.deletions,
                  fileChanges     |-> Append(acc.fileChanges, fc)])

\* the summary built from the parsed diffs
SummaryOf(ds) ==
    LET acc == SummarizeLoop(ds, 1, [totalInsertions |-> 0, totalDeletions |-> 0,
                                     fileChanges |-> <<>>])
    IN  [filesChanged |-> Len(ds),
         insertions   |-> acc.totalInsertions,
         deletions    |-> acc.totalDeletions,
         fileChanges  |-> acc.fileChanges]

\* summarizeDiff as one call
summarizeDiff(s) == SummaryOf(parseDiff(s))

(***************************************************************************)
(* splitDiffByFiles.  filePattern is "diff --git a/", group 1 (lazy, any   *)
(* characters but a line break), " b/", group 2 (lazy, likewise), "\n",    *)
(* with the g flag: exec searches from lastIndex for the leftmost match    *)
(* and leaves lastIndex after it.  Positions are 1-based here, match.index *)
(* is 0-based as in the code.                                              *)
(***************************************************************************)
\* the characters "." matches: all but the line terminators (U+2028 and
\* U+2029, line terminators too, are not in the alphabet of the inputs)
IsDot(c) == c \notin {"\n", "\r"}

\* the first position q in lo..hi where " b/" occurs, 0 if none
RECURSIVE FirstSepB(_, _, _)
FirstSepB(s, lo, hi) ==
    IF lo > hi THEN 0
    ELSE IF LitAt(s, lo, <<" ", "b", "/">>) THEN lo
    ELSE FirstSepB(s, lo + 1, hi)

\* a variant of FilePatternAt that names the file by the second group, the
\* b/ path
FilePatternAtNewPath(s, p) ==
    IF ~LitAt(s, p, <<"d", "i", "f", "f", " ", "-", "-", "g", "i", "t", " ", "a", "/">>) THEN Null
    ELSE LET a   == p + 13
             eol == NextNewline(s, a)
             q   == FirstSepB(s, a, eol - 3)
         IN  IF eol > Len(s) \/ q = 0 \/ (\E r \in a..(eol - 1) : ~IsDot(s[r])) THEN Null
             ELSE [index |-> p - 1, fileName |-> SubSeq(s, q + 3, eol - 1), last |-> eol]

\* the attempt at position p: [index, fileName, last] or Null
FilePatternAt(s, p) ==
    IF ~LitAt(s, p, <<"d", "i", "f", "f", " ", "-", "-", "g", "i", "t", " ", "a", "/">>) THEN Null
    ELSE LET a   == p + 13
             eol == NextNewline(s, a)
             q   == FirstSepB(s, a, eol - 3)
         IN  IF eol > Len(s) \/ q = 0 \/ (\E r \in a..(eol - 1) : ~IsDot(s[r])) THEN Null
             ELSE [index |-> p - 1, fileName |-> SubSeq(s, a, q - 1), last |-> eol]

\* filePattern.exec(diffStr) with lastIndex = from - 1
FilePatternExec(s, from) ==
    LET found == {p \in from..Len(s) : s[p] = "d" /\ FilePatternAt(s, p) # Null}
    IN  IF found = {} THEN Null ELSE FilePatternAt(s, Least(found))

\* the while loop that fills fileHeaders
RECURSIVE FileHeadersFrom(_, _)
FileHeadersFrom(s, from) ==
    LET m == FilePatternExec(s, from)
    IN  IF m = Null THEN <<>>
        ELSE << [index |-> m.index, fileName |-> m.fileName] >>
             \o FileHeadersFrom(s, m.last + 1)

FileHeaders(s) == FileHeadersFrom(s, 1)

\* a property name that is an array index ("0", or digits with no leading
\* zero): such keys come first, in ascending numeric order, when the
\* properties of an object are enumerated
IsArrayIndex(key) ==
    /\ key # <<>>
    /\ \A k \in 1..Len(key) : key[k] \in Digits
    /\ (Len(key) > 1 => key[1] # "0")

\* the property name whose assignment sets the prototype of a plain object
\* (and does nothing when the value is a string): it never becomes an entry
ProtoKey == <<"_", "_", "p", "r", "o", "t", "o", "_", "_">>

HasKey(obj, key) == \E k \in 1..Len(obj) : obj[k].key = key

\* the position at which a new property key is enumerated
InsertAt(obj, key) ==
    IF IsArrayIndex(key)
    THEN 1 + Cardinality({k \in 1..Len(obj) :
                            IsArrayIndex(obj[k].key) /\ ParseInt(obj[k].key) < ParseInt(key)})
    ELSE Len(obj) + 1

\* obj[key] = value on a plain object, kept as the sequence of its entries
\* in enumeration order
SetProperty(obj, key, value) ==
    IF key = ProtoKey THEN obj
    ELSE IF HasKey(obj, key)
    THEN [k \in 1..Len(obj) |-> IF obj[k].key = key THEN [key |-> key, value |-> value]
                                ELSE obj[k]]
    ELSE LET at == InsertAt(obj, key)
         IN  SubSeq(obj, 1, at - 1) \o << [key |-> key, value |-> value] >>
             \o SubSeq(obj, at, Len(obj))

\* SplitLoop with the fault of ending a segment one character early
RECURSIVE SplitLoopShort(_, _, _, _)
SplitLoopShort(s, hs, k, obj) ==
    IF k > Len(hs) THEN obj
    ELSE LET endPos == IF k < Len(hs) THEN hs[k + 1].index - 1 ELSE Len(s)
         IN  SplitLoopShort(s, hs, k + 1,
                       SetProperty(obj, hs[k].fileName, Substring2(s, hs[k].index, endPos)))

\* the for loop over fileHeaders that fills fileDiffs
RECURSIVE SplitLoop(_, _, _, _)
SplitLoop(s, hs, k, obj) ==
    IF k > Len(hs) THEN obj
    ELSE LET endPos == IF k < Len(hs) THEN hs[k + 1].index ELSE Len(s)
         IN  SplitLoop(s, hs, k + 1,
                       SetProperty(obj, hs[k].fileName, Substring2(s, hs[k].index, endPos)))

\* splitDiffByFiles as one call: the entries of the returned object
splitDiffByFiles(s) == SplitLoop(s, FileHeaders(s), 1, <<>>)

(***************************************************************************)
(* extractFileDiff: fileDiffs[fileName] || null.  fileDiffs is a plain     *)
(* object, so the read finds the object's own entries and, for the other   *)
(* names, what it inherits from Object.prototype.                          *)
(***************************************************************************)
\* the property names every plain object inherits: methods, the constructor
\* and the __proto__ accessor, none of them a falsy value
InheritedNames ==
    {<<"c", "o", "n", "s", "t", "r", "u", "c", "t", "o", "r">>,
     <<"h", "a", "s", "O", "w", "n", "P", "r", "o", "p", "e", "r", "t", "y">>,
     <<"i", "s", "P", "r", "o", "t", "o", "t", "y", "p", "e", "O", "f">>,
     <<"p", "r", "o", "p", "e", "r", "t", "y", "I", "s", "E", "n", "u", "m", "e", "r", "a", "b", "l", "e">>,
     <<"t", "o", "L", "o", "c", "a", "l", "e", "S", "t", "r", "i", "n", "g">>,
     <<"t", "o", "S", "t", "r", "i", "n", "g">>,
     <<"v", "a", "l", "u", "e", "O", "f">>,
     <<"_", "_", "d", "e", "f", "i", "n", "e", "G", "e", "t", "t", "e", "r", "_", "_">>,
     <<"_", "_", "d", "e", "f", "i", "n", "e", "S", "e", "t", "t", "e", "r", "_", "_">>,
     <<"_", "_", "l", "o", "o", "k", "u", "p", "G", "e", "t", "t", "e", "r", "_", "_">>,
     <<"_", "_", "l", "o", "o", "k", "u", "p", "S", "e", "t", "t", "e", "r", "_", "_">>,
     ProtoKey}

\* obj[key]: the string of the own entry, the inherited member, or undefined
GetProperty(obj, key) ==
    IF HasKey(obj, key)
    THEN [kind |-> "string", value |-> (CHOOSE e \in {obj[k] : k \in 1..Len(obj)} : e.key = key).value]
    ELSE IF key \in InheritedNames THEN [kind |-> "inherited", name |-> key]
    ELSE [kind |-> "undefined"]

\* a || null: the strings of the entries are never empty, an inherited
\* member is never falsy
OrNull(a) ==
    IF a.kind = "undefined" \/ (a.kind = "string" /\ a.value = <<>>) THEN [kind |-> "null"] ELSE a

extractFileDiff(s, fileName) == OrNull(GetProperty(splitDiffByFiles(s), fileName))

(***************************************************************************)
(* processDiffToGiteaFiles (services/giteaService.ts).                     *)
(***************************************************************************)
\* GiteaFileOf with the fault of taking the two counts for each other
GiteaFileOfSwapped(entry) ==
    LET fileSummary == summarizeDiff(entry.value)
        isDeleted   == Includes(entry.value, <<"+", "+", "+", " ", "/", "d", "e", "v", "/", "n", "u", "l", "l">>)
        isNew       == Includes(entry.value, <<"-", "-", "-", " ", "/", "d", "e", "v", "/", "n", "u", "l", "l">>)
    IN  [filename  |-> entry.key,
         status    |-> IF isDeleted THEN "removed" ELSE IF isNew THEN "added" ELSE "modified",
         additions |-> fileSummary.deletions,
         deletions |-> fileSummary.insertions,
         changes   |-> fileSummary.insertions + fileSummary.deletions,
         patch     |-> entry.value]

\* the GiteaFile built from one entry of fileDiffs
GiteaFileOf(entry) ==
    LET fileSummary == summarizeDiff(entry.value)
        isDeleted   == Includes(entry.value, <<"+", "+", "+", " ", "/", "d", "e", "v", "/", "n", "u", "l", "l">>)
        isNew       == Includes(entry.value, <<"-", "-", "-", " ", "/", "d", "e", "v", "/", "n", "u", "l", "l">>)
    IN  [filename  |-> entry.key,
         status    |-> IF isDeleted THEN "removed" ELSE IF isNew THEN "added" ELSE "modified",
         additions |-> fileSummary.insertions,
         deletions |-> fileSummary.deletions,
         changes   |-> fileSummary.insertions + fileSummary.deletions,
         patch     |-> entry.value]

\* processDiffToGiteaFiles as one call
processDiffToGiteaFiles(s) ==
    LET fds == splitDiffByFiles(s)
    IN  [k \in 1..Len(fds) |-> GiteaFileOf(fds[k])]

(***************************************************************************)
(* Inputs.                                                                 *)
(***************************************************************************)
\* Array.prototype.join('\n'), the inverse of split('\n')
RECURSIVE JoinLines(_)
JoinLines(ls) ==
    IF Len(ls) = 1 THEN ls[1]
    ELSE ls[1] \o <<"\n">> \o JoinLines(Tail(ls))

HdrX    == <<"d", "i", "f", "f", " ", "-", "-", "g", "i", "t", " ", "a", "/", "x", " ", "b", "/", "x">>
HdrYZ   == <<"d", "i", "f", "f", " ", "-", "-", "g", "i", "t", " ", "a", "/", "y", " ", "b", "/", "z">>
Hunk35  == <<"@", "@", " ", "-", "3", ",", "2", " ", "+", "5", " ", "@", "@">>
BadHunk == <<"@", "@", " ", "b", "a", "d">>
Plus    == <<"+", "p">>
Minus   == <<"-", "q">>
Ctx     == <<" ", "r">>
OldX    == <<"-", "-", "-", " ", "a", "/", "x">>
NewX    == <<"+", "+", "+", " ", "b", "/", "x">>
OldNull == <<"-", "-", "-", " ", "/", "d", "e", "v", "/", "n", "u", "l", "l">>
NewNull == <<"+", "+", "+", " ", "/", "d", "e", "v", "/", "n", "u", "l", "l">>
Empty   == <<>>

\* the lines every input of up to MaxLines lines is built from
CoreLines ==
    {HdrX, HdrYZ, Hunk35, BadHunk, Plus, Minus, Ctx, OldX, NewX, OldNull, NewNull, Empty}

CoreInputs ==
    {JoinLines(ls) : ls \in UNION {[1..n -> CoreLines] : n \in 1..MaxLines}}

\* the lines of the longer inputs: two file headers, a hunk header, a
\* malformed hunk header and a content line
DeepLines == {HdrX, HdrYZ, Hunk35, BadHunk, Plus}

DeepInputs ==
    {JoinLines(ls \o <<Empty>>) :
        ls \in UNION {[1..n -> DeepLines] : n \in (MaxLines + 1)..MaxDeepLines}}

\* the scenarios of the testable properties, and inputs that use the line
\* shapes CoreLines leaves out
Scenario1 == <<"d", "i", "f", "f", " ", "-", "-", "g", "i", "t", " ", "a", "/", "x", ".", "t", "x", "t", " ", "b", "/", "x", ".", "t", "x", "t", "\n", "-", "-", "-", " ", "a", "/", "x", ".", "t", "x", "t", "\n", "+", "+", "+", " ", "b", "/", "x", ".", "t", "x", "t", "\n", "@", "@", " ", "-", "1", ",", "2", " ", "+", "1", ",", "3", " ", "@", "@", "\n", " ", "l", "i", "n", "e", "1", "\n", "-", "l", "i", "n", "e", "2", "\n", "+", "l", "i", "n", "e", "2", "x", "\n", "+", "l", "i", "n", "e", "3", "\n">>
Scenario2 == <<"d", "i", "f", "f", " ", "-", "-", "g", "i", "t", " ", "a", "/", "n", "e", "w", ".", "t", "x", "t", " ", "b", "/", "n", "e", "w", ".", "t", "x", "t", "\n", "n", "e", "w", " ", "f", "i", "l", "e", " ", "m", "o", "d", "e", " ", "1", "0", "0", "6", "4", "4", "\n", "i", "n", "d", "e", "x", " ", "0", "0", "0", "0", "0", "0", "0", ".", ".", "1", "\n", "-", "-", "-", " ", "/", "d", "e", "v", "/", "n", "u", "l", "l", "\n", "+", "+", "+", " ", "b", "/", "n", "e", "w", ".", "t", "x", "t", "\n", "@", "@", " ", "-", "0", ",", "0", " ", "+", "1", " ", "@", "@", "\n", "+", "a", "\n", "\\", " ", "N", "o", " ", "n", "e", "w", "l", "i", "n", "e", " ", "a", "t", " ", "e", "n", "d", " ", "o", "f", " ", "f", "i", "l", "e", "\n">>
Scenario3 == <<"d", "i", "f", "f", " ", "-", "-", "g", "i", "t", " ", "a", "/", "o", "l", "d", ".", "t", "x", "t", " ", "b", "/", "o", "l", "d", ".", "t", "x", "t", "\n", "d", "e", "l", "e", "t", "e", "d", " ", "f", "i", "l", "e", " ", "m", "o", "d", "e", " ", "1", "0", "0", "6", "4", "4", "\n", "-", "-", "-", " ", "a", "/", "o", "l", "d", ".", "t", "x", "t", "\n", "+", "+", "+", " ", "/", "d", "e", "v", "/", "n", "u", "l", "l", "\n", "@", "@", " ", "-", "1", " ", "+", "0", ",", "0", " ", "@", "@", "\n", "-", "a", "\n">>
Scenario5 == <<"d", "i", "f", "f", " ", "-", "-", "g", "i", "t", " ", "a", "/", "x", " ", "b", "/", "x", "\n", "-", "-", "-", " ", "a", "/", "x", "\n", "+", "+", "+", " ", "b", "/", "x", "\n", "@", "@", " ", "-", "1", " ", "+", "1", " ", "@", "@", "\n", "-", "a", "\n", "+", "b", "\n", "d", "i", "f", "f", " ", "-", "-", "g", "i", "t", " ", "a", "/", "w", " ", "b", "/", "w", "\n", "-", "-", "-", " ", "a", "/", "w", "\n", "+", "+", "+", " ", "b", "/", "w", "\n", "@", "@", " ", "-", "7", ",", "2", " ", "+", "7", ",", "2", " ", "@", "@", "\n", " ", "c", "\n", "-", "d", "\n", "+", "e", "\n">>
Renamed   == <<"d", "i", "f", "f", " ", "-", "-", "g", "i", "t", " ", "a", "/", "x", " ", "b", "/", "x", "\n", "-", "-", "-", " ", "a", "/", "x", "\n", "+", "+", "+", " ", "b", "/", "x", "\n", "@", "@", " ", "-", "1", " ", "+", "1", " ", "@", "@", "\n", "-", "a", "\n", "+", "b", "\n", "d", "i", "f", "f", " ", "-", "-", "g", "i", "t", " ", "a", "/", "y", " ", "b", "/", "z", "\n", "-", "-", "-", " ", "a", "/", "y", "\n", "+", "+", "+", " ", "b", "/", "z", "\n", "@", "@", " ", "-", "2", " ", "+", "2", " ", "@", "@", "\n", "-", "c", "\n", "+", "d", "\n">>
NumericKey == <<"d", "i", "f", "f", " ", "-", "-", "g", "i", "t", " ", "a", "/", "x", " ", "b", "/", "x", "\n", "@", "@", " ", "-", "1", " ", "+", "1", " ", "@", "@", "\n", "+", "b", "\n", "d", "i", "f", "f", " ", "-", "-", "g", "i", "t", " ", "a", "/", "1", " ", "b", "/", "1", "\n", "@", "@", " ", "-", "1", " ", "+", "1", " ", "@", "@", "\n", "-", "c", "\n">>
Preamble  == <<"F", "r", "o", "m", " ", "1", "\n", "d", "i", "f", "f", " ", "-", "-", "g", "i", "t", " ", "a", "/", "x", " ", "b", "/", "x", "\n", "@", "@", " ", "-", "1", " ", "+", "1", " ", "@", "@", "\n", "+", "b", "\n">>
Malformed == <<"d", "i", "f", "f", " ", "-", "-", "g", "i", "t", " ", "a", "/", "x", " ", "b", "/", "x", "\n", "@", "@", " ", "-", "1", " ", "+", "1", " ", "@", "@", "\n", "+", "b", "\n", "@", "@", " ", "-", "9", " ", "+", "9", " ", "@", "\n", "-", "c", "\n", "+", "d", "\n", " ", "e", "\n", "@", "@", " ", "-", "2", "0", " ", "+", "2", "1", ",", "2", " ", "@", "@", "\n", "+", "f", "\n">>
TwoHunks  == <<"d", "i", "f", "f", " ", "-", "-", "g", "i", "t", " ", "a", "/", "x", " ", "b", "/", "x", "\n", "-", "-", "-", " ", "a", "/", "x", "\n", "+", "+", "+", " ", "b", "/", "x", "\n", "@", "@", " ", "-", "3", ",", "2", " ", "+", "5", ",", "3", " ", "@", "@", "\n", " ", "a", "\n", "+", "b", "\n", " ", "c", "\n", "@", "@", " ", "-", "1", "0", " ", "+", "1", "1", ",", "2", " ", "@", "@", "\n", "-", "d", "\n", "+", "e", "\n", "+", "f", "\n">>
Leak      == <<"d", "i", "f", "f", " ", "-", "-", "g", "i", "t", " ", "a", "/", "x", " ", "b", "/", "x", "\n", "@", "@", " ", "-", "1", " ", "+", "1", " ", "@", "@", "\n", "+", "b", "\n", "d", "i", "f", "f", " ", "-", "-", "g", "i", "t", " ", "a", "/", "w", " ", "b", "/", "w", "\n", "-", "c", "\n", "+", "d", "\n", "@", "@", " ", "-", "4", " ", "+", "4", " ", "@", "@", "\n", "+", "e", "\n">>
CrLf      == <<"d", "i", "f", "f", " ", "-", "-", "g", "i", "t", " ", "a", "/", "x", " ", "b", "/", "x", "\r", "\n", "@", "@", " ", "-", "1", " ", "+", "1", " ", "@", "@", "\r", "\n", "+", "b", "\r", "\n">>
ProtoPath == <<"d", "i", "f", "f", " ", "-", "-", "g", "i", "t", " ", "a", "/", "_", "_", "p", "r", "o", "t", "o", "_", "_", " ", "b", "/", "_", "_", "p", "r", "o", "t", "o", "_", "_", "\n", "@", "@", " ", "-", "1", " ", "+", "1", " ", "@", "@", "\n", "+", "b", "\n">>
InHunkPaths == <<"d", "i", "f", "f", " ", "-", "-", "g", "i", "t", " ", "a", "/", "x", " ", "b", "/", "x", "\n", "-", "-", "-", " ", "a", "/", "x", "\n", "+", "+", "+", " ", "b", "/", "x", "\n", "@", "@", " ", "-", "1", ",", "3", " ", "+", "1", ",", "3", " ", "@", "@", "\n", "-", "-", " ", "a", "/", "k", "\n", "-", "-", "-", " ", "/", "d", "e", "v", "/", "n", "u", "l", "l", "\n", "+", "+", "+", " ", "/", "d", "e", "v", "/", "n", "u", "l", "l", "\n", "+", "+", " ", "b", "/", "m", "\n">>

MarkerInContent == <<"d", "i", "f", "f", " ", "-", "-", "g", "i", "t", " ", "a", "/", "x", " ", "b", "/", "x", "\n", "-", "-", "-", " ", "a", "/", "x", "\n", "+", "+", "+", " ", "b", "/", "x", "\n", "@", "@", " ", "-", "1", " ", "+", "1", ",", "2", " ", "@", "@", "\n", " ", "r", "\n", "+", "s", "e", "e", " ", "+", "+", "+", " ", "/", "d", "e", "v", "/", "n", "u", "l", "l", "\n">>

QuotedHeader == <<"+", "d", "i", "f", "f", " ", "-", "-", "g", "i", "t", " ", "a", "/", "w", " ", "b", "/", "w", "\n">>

ProtoTwice == <<"d", "i", "f", "f", " ", "-", "-", "g", "i", "t", " ", "a", "/", "_", "_", "p", "r", "o", "t", "o", "_", "_", " ", "b", "/", "_", "_", "p", "r", "o", "t", "o", "_", "_", "\n", "@", "@", " ", "-", "1", " ", "+", "1", " ", "@", "@", "\n", "+", "b", "\n", "d", "i", "f", "f", " ", "-", "-", "g", "i", "t", " ", "a", "/", "_", "_", "p", "r", "o", "t", "o", "_", "_", " ", "b", "/", "_", "_", "p", "r", "o", "t", "o", "_", "_", "\n", "@", "@", " ", "-", "5", " ", "+", "5", " ", "@", "@", "\n", "+", "c", "\n">>

ZeroCount == <<"d", "i", "f", "f", " ", "-", "-", "g", "i", "t", " ", "a", "/", "x", " ", "b", "/", "x", "\n", "@", "@", " ", "-", "0", ",", "0", " ", "+", "1", ",", "2", " ", "@", "@", "\n", "+", "a", "\n">>

Scenarios ==
    {Scenario1, Scenario2, Scenario3, Scenario5, Renamed, NumericKey, Preamble, Malformed,
     TwoHunks, Leak, InHunkPaths, CrLf, ProtoPath, MarkerInContent,
     QuotedHeader, ProtoTwice, ZeroCount}

Inputs == CoreInputs \cup DeepInputs \cup Scenarios

\* the names extractFileDiff is asked for: the a/ path of a header, a b/
\* path that is no a/ path, and two names of Object.prototype
FileNames == {<<"x">>, <<"z">>, <<"t", "o", "S", "t", "r", "i", "n", "g">>, ProtoKey}

(***************************************************************************)
(* The state machine: summarizeDiff(diffStr), with the line loop of its    *)
(* parseDiff call run one iteration per step, then splitDiffByFiles and    *)
(* processDiffToGiteaFiles on the same string.                             *)
(***************************************************************************)
VARIABLES
    diffStr,       \* the input string
    pc,            \* the position of the caller
    lines,         \* parseDiff: diffStr.split('\n')
    i,             \* parseDiff: the loop index (0-based)
    diffs,         \* parseDiff: the FileDiffs pushed so far
    currentDiff,   \* parseDiff: the FileDiff under construction, or Null
    currentChunk,  \* parseDiff: the reference to the open chunk, or Null
    summary,       \* the value summarizeDiff returned, or Null
    fileDiffs,     \* the entries of the object splitDiffByFiles returned
    giteaFiles,    \* the array processDiffToGiteaFiles returned
    returned,      \* what the calls before this one were given and returned
    extracted,     \* the name extractFileDiff was given and what it returned
    options,       \* request: the RequestOptions of the call
    env,           \* getToken: the stored tokens (GITEA_TOKEN, OPENAI_API_KEY)
    rpc,           \* request: the position of the call
    config,        \* the axios config of the attempt (headers, maxRetries, _retryCount)
    attempts,      \* what went out so far: the headers of each attempt and how it ended
    reply,         \* the AxiosResponse or AxiosError of the last attempt
    result,        \* the ResponseData request() returned, or Null
    handler,       \* which route handler or service function runs
    hpc,           \* the position of the handler
    httpRequest,   \* what the handler was called with
    upstream,      \* the calls the handler made so far, with their results
    httpResponse   \* what the handler returned, or Null

vars == <<diffStr, pc, lines, i, diffs, currentDiff, currentChunk, summary,
          fileDiffs, giteaFiles, returned, extracted,
          options, env, rpc, config, attempts, reply, result,
          handler, hpc, httpRequest, upstream, httpResponse>>

\* the variables of the diff functions, of the request helper and of the
\* route handlers
diffVars == <<diffStr, pc, lines, i, diffs, currentDiff, currentChunk, summary,
              fileDiffs, giteaFiles, returned, extracted>>

requestVars == <<options, env, rpc, config, attempts, reply, result>>

handlerVars == <<handler, hpc, httpRequest, upstream, httpResponse>>

\* no call of the diff functions
DiffIdle ==
    /\ diffStr = <<>>
    /\ pc = "idle"
    /\ lines = <<>>
    /\ i = 0
    /\ diffs = <<>>
    /\ currentDiff = Null
    /\ currentChunk = Null
    /\ summary = Null
    /\ fileDiffs = <<>>
    /\ giteaFiles = <<>>
    /\ returned = <<>>
    /\ extracted = Null

\* no call of the request helper
RequestIdle ==
    /\ options = Null
    /\ env = Null
    /\ rpc = "idle"
    /\ config = Null
    /\ attempts = <<>>
    /\ reply = Null
    /\ result = Null

\* no call of a route handler
HandlerIdle ==
    /\ handler = "none"
    /\ hpc = "idle"
    /\ httpRequest = Null
    /\ upstream = <<>>
    /\ httpResponse = Null

\* the loop state of parseDiff as one record
P == [diffs |-> diffs, currentDiff |-> currentDiff, currentChunk |-> currentChunk]

Init ==
    /\ diffStr \in Inputs
    /\ pc = "parseDiff"
    /\ lines = <<>>
    /\ i = 0
    /\ diffs = <<>>
    /\ currentDiff = Null
    /\ currentChunk = Null
    /\ summary = Null
    /\ fileDiffs = <<>>
    /\ giteaFiles = <<>>
    /\ returned = <<>>
    /\ extracted = Null
    /\ RequestIdle
    /\ HandlerIdle

\* a variant of ParseDiffEnter whose array of FileDiffs outlives the call
ParseDiffEnterShared ==
    /\ pc = "parseDiff"
    /\ lines' = SplitLines(diffStr)
    /\ i' = 0
    /\ diffs' = diffs
    /\ currentDiff' = ParseStart.currentDiff
    /\ currentChunk' = ParseStart.currentChunk
    /\ pc' = "loop"
    /\ UNCHANGED <<requestVars, handlerVars, returned, extracted, diffStr, summary, fileDiffs, giteaFiles>>

\* parseDiff, up to the loop
ParseDiffEnter ==
    /\ pc = "parseDiff"
    /\ lines' = SplitLines(diffStr)
    /\ i' = 0
    /\ diffs' = ParseStart.diffs
    /\ currentDiff' = ParseStart.currentDiff
    /\ currentChunk' = ParseStart.currentChunk
    /\ pc' = "loop"
    /\ UNCHANGED <<requestVars, handlerVars, returned, extracted, diffStr, summary, fileDiffs, giteaFiles>>

\* a variant of ParseDiffLine that gives up at a "@@ " line the pattern rejects
ParseDiffLineAborting ==
    /\ pc = "loop"
    /\ i < Len(lines)
    /\ LET Q == ParseLine(P, lines[i + 1])
       IN  /\ diffs' = Q.diffs
           /\ currentDiff' = Q.currentDiff
           /\ currentChunk' = Q.currentChunk
    /\ i' = i + 1
    /\ pc' = IF StartsWith(lines[i + 1], <<"@", "@", " ">>) /\ HunkHeaderMatch(lines[i + 1]) = Null
             THEN "done" ELSE pc
    /\ UNCHANGED <<requestVars, handlerVars, returned, extracted, diffStr, lines, summary, fileDiffs, giteaFiles>>

\* parseDiff, one iteration of the loop
ParseDiffLine ==
    /\ pc = "loop"
    /\ i < Len(lines)
    /\ LET Q == ParseLine(P, lines[i + 1])
       IN  /\ diffs' = Q.diffs
           /\ currentDiff' = Q.currentDiff
           /\ currentChunk' = Q.currentChunk
    /\ i' = i + 1
    /\ UNCHANGED <<requestVars, handlerVars, returned, extracted, diffStr, pc, lines, summary, fileDiffs, giteaFiles>>

\* parseDiff, after the loop
ParseDiffReturn ==
    /\ pc = "loop"
    /\ i = Len(lines)
    /\ diffs' = ParseFinish(P)
    /\ pc' = "summarize"
    /\ UNCHANGED <<requestVars, handlerVars, returned, extracted, diffStr, lines, i, currentDiff, currentChunk, summary, fileDiffs,
                   giteaFiles>>

\* summarizeDiff, from the return of parseDiff on
SummarizeDiff ==
    /\ pc = "summarize"
    /\ summary' = SummaryOf(diffs)
    /\ pc' = "split"
    /\ UNCHANGED <<requestVars, handlerVars, returned, extracted, diffStr, lines, i, diffs, currentDiff, currentChunk, fileDiffs,
                   giteaFiles>>

SplitDiffByFiles ==
    /\ pc = "split"
    /\ fileDiffs' = splitDiffByFiles(diffStr)
    /\ pc' = "process"
    /\ UNCHANGED <<requestVars, handlerVars, returned, extracted, diffStr, lines, i, diffs, currentDiff, currentChunk, summary,
                   giteaFiles>>

ProcessDiffToGiteaFiles ==
    /\ pc = "process"
    /\ giteaFiles' = processDiffToGiteaFiles(diffStr)
    /\ pc' = "done"
    /\ UNCHANGED <<requestVars, handlerVars, returned, extracted, diffStr, lines, i, diffs, currentDiff, currentChunk, summary,
                   fileDiffs>>

\* extractFileDiff(diffStr, fileName), in place of the call of
\* processDiffToGiteaFiles
ExtractFileDiff ==
    /\ pc = "process"
    /\ \E fileName \in FileNames :
          extracted' = [fileName |-> fileName, result |-> extractFileDiff(diffStr, fileName)]
    /\ pc' = "extracted"
    /\ UNCHANGED <<requestVars, handlerVars, returned, diffStr, lines, i, diffs, currentDiff, currentChunk, summary,
                   fileDiffs, giteaFiles>>

Next ==
    \/ ParseDiffEnter
    \/ ParseDiffLine
    \/ ParseDiffReturn
    \/ SummarizeDiff
    \/ SplitDiffByFiles
    \/ ProcessDiffToGiteaFiles
    \/ ExtractFileDiff

Spec == Init /\ [][Next]_vars


(***************************************************************************)
(* Calls one after the other.  The functions are synchronous, so a call    *)
(* runs to its end before the next one starts.  What a call leaves behind  *)
(* stays in the variables: the next call sees it unless its own code       *)
(* initialises it (the arrays, currentDiff and currentChunk are locals of  *)
(* parseDiff, the pattern and its lastIndex locals of splitDiffByFiles).   *)
(***************************************************************************)
MaxCalls == 3

\* what the finished call was given and what it returned
Outcome ==
    [input |-> diffStr, diffs |-> diffs, summary |-> summary,
     fileDiffs |-> fileDiffs, giteaFiles |-> giteaFiles]

\* the inputs of the repeated calls
RepeatInputs == {Empty, Scenario5, Leak, ProtoPath}

CallsInit == Init /\ diffStr \in RepeatInputs

\* the next call, on the same input or on another one
CallAgain ==
    /\ pc = "done"
    /\ Len(returned) + 1 < MaxCalls
    /\ returned' = Append(returned, Outcome)
    /\ \E s \in RepeatInputs : diffStr' = s
    /\ pc' = "parseDiff"
    /\ UNCHANGED <<requestVars, handlerVars, lines, i, diffs, currentDiff, currentChunk,
                   summary, fileDiffs, giteaFiles, extracted>>

CallsNext ==
    \/ Next
    \/ CallAgain

CallsSpec == CallsInit /\ [][CallsNext]_vars

TypeOK == pc \in {"parseDiff", "loop", "summarize", "split", "process", "done", "extracted"}

(***************************************************************************)
(* The request helper (lib/request): request(url, options) and the two     *)
(* interceptors of the axios instance.  An object is a function from its   *)
(* property names to their values; a property that is undefined is not in  *)
(* the domain.  `token ${token}` is the pair <<"token", token>>.           *)
(***************************************************************************)
MaxRetries == 2

\* obj[key] = value
SetHeader(obj, key, value) == (key :> value) @@ obj

\* delete obj[key]
DeleteHeader(obj, key) == [k \in (DOMAIN obj) \ {key} |-> obj[k]]

\* obj[key] || fallback, for string values
GetOr(obj, key, fallback) ==
    IF key \in DOMAIN obj /\ obj[key] # "" THEN obj[key] ELSE fallback

\* the options a caller passes: each of useToken, tokenType, tokenValue and
\* maxRetries is given or left out
OptionsOf(key, values) == {[url |-> "/u"]} \cup {(key :> v) @@ [url |-> "/u"] : v \in values}

OptionsSet ==
    {a @@ b @@ c @@ d : a \in OptionsOf("useToken", {TRUE, FALSE}),
                        b \in OptionsOf("tokenType", {"gitea", "openai"}),
                        c \in OptionsOf("tokenValue", {"passed"}),
                        d \in OptionsOf("maxRetries", 0..MaxRetries)}

\* the stored tokens: each one set or empty
Envs == [GITEA_TOKEN : {"", "stored-gitea"}, OPENAI_API_KEY : {"", "stored-openai"}]

\* getToken(type)
getToken(type) == IF type = "gitea" THEN env.GITEA_TOKEN ELSE env.OPENAI_API_KEY

\* the headers of the axios instance
DefaultHeaders == [k \in {"Content-Type"} |-> "application/json"]

\* the headers request() builds from the options
MarkedHeaders(opts) ==
    IF ~("useToken" \in DOMAIN opts /\ opts.useToken = FALSE)
    THEN LET h1 == SetHeader(DefaultHeaders, "X-Use-Token", "true")
             h2 == SetHeader(h1, "X-Token-Type", GetOr(opts, "tokenType", "gitea"))
         IN  IF GetOr(opts, "tokenValue", "") # ""
             THEN SetHeader(h2, "X-Token-Value", opts.tokenValue)
             ELSE h2
    ELSE SetHeader(DefaultHeaders, "X-Use-Token", "false")

\* a request interceptor that removes the markers only where it used them
InterceptedHeadersKeepingMarkers(h) ==
    LET useToken  == GetOr(h, "X-Use-Token", "undefined") # "false"
        tokenType == GetOr(h, "X-Token-Type", "gitea")
        passed    == GetOr(h, "X-Token-Value", "")
        token     == IF passed # "" THEN passed ELSE getToken(tokenType)
    IN  IF useToken /\ token # ""
        THEN DeleteHeader(DeleteHeader(DeleteHeader(
                 SetHeader(h, "Authorization",
                           <<IF tokenType = "gitea" THEN "token" ELSE "Bearer", token>>),
                 "X-Use-Token"), "X-Token-Type"), "X-Token-Value")
        ELSE h

\* the request interceptor, on the headers of a config
InterceptedHeaders(h) ==
    LET useToken  == GetOr(h, "X-Use-Token", "undefined") # "false"
        tokenType == GetOr(h, "X-Token-Type", "gitea")
        passed    == GetOr(h, "X-Token-Value", "")
        token     == IF passed # "" THEN passed ELSE getToken(tokenType)
        h1        == IF useToken /\ token # ""
                     THEN IF tokenType = "gitea"
                          THEN SetHeader(h, "Authorization", <<"token", token>>)
                          ELSE IF tokenType = "openai"
                          THEN SetHeader(h, "Authorization", <<"Bearer", token>>)
                          ELSE h
                     ELSE h
    IN  DeleteHeader(DeleteHeader(DeleteHeader(h1, "X-Use-Token"), "X-Token-Type"),
                     "X-Token-Value")

\* config._retryCount, 0 when undefined
RetryCount(cfg) == IF "_retryCount" \in DOMAIN cfg THEN cfg["_retryCount"] ELSE 0

\* config.maxRetries || 0
RetriesAllowed(cfg) == IF "maxRetries" \in DOMAIN cfg THEN cfg.maxRetries ELSE 0

\* how an attempt can end: a response with a 2xx status, or an AxiosError
\* without response, with a response that has a message, or with one that
\* has none; n is the number of the attempt
Replies(n) ==
    {[ok |-> TRUE, status |-> 200, data |-> <<"data", n>>],
     [ok |-> FALSE, message |-> <<"Network Error", n>>],
     [ok |-> FALSE, message |-> <<"Request failed with status code 500", n>>,
      response |-> [status |-> 500, data |-> [message |-> <<"server message", n>>]]],
     [ok |-> FALSE, message |-> <<"Request failed with status code 404", n>>,
      response |-> [status |-> 404, data |-> [detail |-> "none"]]]}

RequestInit ==
    /\ DiffIdle
    /\ HandlerIdle
    /\ options \in OptionsSet
    /\ env \in Envs
    /\ rpc = "request"
    /\ config = Null
    /\ attempts = <<>>
    /\ reply = Null
    /\ result = Null

\* request(), up to the call of the instance
Request ==
    /\ rpc = "request"
    /\ config' = ("headers" :> MarkedHeaders(options)) @@ options
    /\ rpc' = "requestInterceptor"
    /\ UNCHANGED <<diffVars, handlerVars, options, env, attempts, reply, result>>

\* the request interceptor
RequestInterceptor ==
    /\ rpc = "requestInterceptor"
    /\ config' = [config EXCEPT !["headers"] = InterceptedHeaders(@)]
    /\ rpc' = "dispatch"
    /\ UNCHANGED <<diffVars, handlerVars, options, env, attempts, reply, result>>

\* the attempt goes out and ends one way or the other
Dispatch ==
    /\ rpc = "dispatch"
    /\ \E r \in Replies(Len(attempts) + 1) :
          /\ reply' = r
          /\ attempts' = Append(attempts, [headers |-> config.headers, ok |-> r.ok])
          /\ rpc' = IF r.ok THEN "fulfilled" ELSE "rejected"
    /\ UNCHANGED <<diffVars, handlerVars, options, env, config, result>>

\* the response interceptor passes the response on and request() returns
RequestReturn ==
    /\ rpc = "fulfilled"
    /\ result' = [success |-> TRUE, data |-> reply.data, status |-> reply.status]
    /\ rpc' = "settled"
    /\ UNCHANGED <<diffVars, handlerVars, options, env, config, attempts, reply>>

\* a variant of ResponseError that retries while the count is not above
\* maxRetries
ResponseErrorOnceMore ==
    /\ rpc = "rejected"
    /\ IF RetryCount(config) <= RetriesAllowed(config)
       THEN /\ config' = ("_retryCount" :> (RetryCount(config) + 1)) @@ config
            /\ rpc' = "retryDelay"
       ELSE /\ config' = ("_retryCount" :> RetryCount(config)) @@ config
            /\ rpc' = "catch"
    /\ UNCHANGED <<diffVars, handlerVars, options, env, attempts, reply, result>>

\* the response interceptor on an error: retry or reject
ResponseError ==
    /\ rpc = "rejected"
    /\ IF RetryCount(config) < RetriesAllowed(config)
       THEN /\ config' = ("_retryCount" :> (RetryCount(config) + 1)) @@ config
            /\ rpc' = "retryDelay"
       ELSE /\ config' = ("_retryCount" :> RetryCount(config)) @@ config
            /\ rpc' = "catch"
    /\ UNCHANGED <<diffVars, handlerVars, options, env, attempts, reply, result>>

\* the delay is over: instance(config) sends the config again
RetryDelay ==
    /\ rpc = "retryDelay"
    /\ rpc' = "requestInterceptor"
    /\ UNCHANGED <<diffVars, handlerVars, options, env, config, attempts, reply, result>>

\* a catch block that handles an error with a response and throws any other
RequestCatchRethrowing ==
    /\ rpc = "catch"
    /\ IF "response" \in DOMAIN reply
       THEN /\ result' = [success |-> FALSE, error |-> reply.message,
                          status |-> reply.response.status]
            /\ rpc' = "settled"
       ELSE /\ result' = result
            /\ rpc' = "thrown"
    /\ UNCHANGED <<diffVars, handlerVars, options, env, config, attempts, reply>>

\* the catch block of request()
RequestCatch ==
    /\ rpc = "catch"
    /\ LET message == IF "response" \in DOMAIN reply /\ "message" \in DOMAIN reply.response.data
                      THEN reply.response.data.message
                      ELSE reply.message
       IN  result' = IF "response" \in DOMAIN reply
                     THEN [success |-> FALSE, error |-> message, status |-> reply.response.status]
                     ELSE [success |-> FALSE, error |-> message]
    /\ rpc' = "settled"
    /\ UNCHANGED <<diffVars, handlerVars, options, env, config, attempts, reply>>

RequestNext ==
    \/ Request
    \/ RequestInterceptor
    \/ Dispatch
    \/ RequestReturn
    \/ ResponseError
    \/ RetryDelay
    \/ RequestCatch

\* an attempt ends (the instance has a timeout), a timer fires and a
\* continuation runs: no step that can be taken is put off for ever
RequestSpec == RequestInit /\ [][RequestNext]_vars /\ WF_vars(RequestNext)

(***************************************************************************)
(* The route handlers and getUserRepositories.  A call is followed from    *)
(* its request to the value it answers with; every call of a service that  *)
(* it makes is appended to upstream with the answer the service gave.      *)
(***************************************************************************)

\* String.prototype.split(sep) for a one-character separator
RECURSIVE SplitOn(_, _)
SplitOn(s, sep) ==
    LET hits == {k \in 1..Len(s) : s[k] = sep}
    IN  IF hits = {} THEN << s >>
        ELSE LET q == CHOOSE k \in hits : \A m \in hits : k <= m
             IN  << SubSeq(s, 1, q - 1) >> \o SplitOn(SubSeq(s, q + 1, Len(s)), sep)

\* the value of a destructured element that is not there
Undefined == << "undefined" >>

\* NextResponse.json(body, {status}), the status 200 when none is given
JsonResponse(body, status) == [status |-> status, body |-> body]

\* the x-gitea-token header of a request: left out, or a token
Tokens == {"", "tok"}

\* the bodies of a code-review request: not JSON, the JSON null, or an object
\* with repositoryFullName and pullRequestNumber given, empty or left out
CodeReviewBodies ==
    {[invalid |-> TRUE], [null |-> TRUE]} \cup
    {a @@ b : a \in {<<>>} \cup {("repositoryFullName" :> v) : v \in {<<>>, <<"o", "/", "r">>, <<"o">>, <<"o", "/", "r", "/", "x">>}},
              b \in {<<>>} \cup {("pullRequestNumber" :> n) : n \in {0, 5}}}

\* what getPullRequest, getPullRequestDiff and generateCodeReview answer:
\* each catches its own errors and returns success false with the message
PullRequestAnswers ==
    { [success |-> TRUE, data |-> [id |-> 41, title |-> "title", body |-> "body"]],
      [success |-> TRUE, data |-> [id |-> 42, title |-> "title", body |-> ""]],
      [success |-> TRUE],
      [success |-> FALSE, error |-> "pull request error"] }

DiffAnswers ==
    { [success |-> TRUE, data |-> "diff text"],
      [success |-> TRUE, data |-> ""],
      [success |-> FALSE, error |-> "diff error"] }

ReviewAnswers ==
    { [success |-> TRUE, data |-> [id |-> "review", pullRequestId |-> 0, summary |-> "content"]],
      [success |-> FALSE, error |-> "review error"] }

\* !response.success || !response.data, for data an object and for data a string
FailedObject(r) == ~r.success \/ "data" \notin DOMAIN r
FailedText(r) == ~r.success \/ "data" \notin DOMAIN r \/ r.data = ""

\* response.error in a template string
ErrorOf(r) == IF "error" \in DOMAIN r THEN r.error ELSE "undefined"

\* a request to the code-review route arrives
CodeReviewInit ==
    /\ handler = "POST"
    /\ hpc = "token"
    /\ httpRequest \in [token : Tokens, body : CodeReviewBodies]
    /\ upstream = <<>>
    /\ httpResponse = Null

\* POST: the token is read and checked
CodeReviewToken ==
    /\ handler = "POST" /\ hpc = "token"
    /\ IF httpRequest.token = ""
       THEN /\ httpResponse' = JsonResponse([success |-> FALSE, error |-> "no token"], 401)
            /\ hpc' = "done"
       ELSE /\ httpResponse' = httpResponse
            /\ hpc' = "body"
    /\ UNCHANGED <<diffVars, requestVars, handler, httpRequest, upstream>>

\* !repositoryFullName || !pullRequestNumber
MissingParameters(body) ==
    \/ "repositoryFullName" \notin DOMAIN body
    \/ body["repositoryFullName"] = <<>>
    \/ "pullRequestNumber" \notin DOMAIN body
    \/ body["pullRequestNumber"] = 0

\* POST: the body is read and its parameters are checked; req.json() of a
\* body that is not JSON and the destructuring of null throw into the catch
CodeReviewBody ==
    /\ handler = "POST" /\ hpc = "body"
    /\ LET body == httpRequest.body
       IN  IF "invalid" \in DOMAIN body \/ "null" \in DOMAIN body
           THEN /\ httpResponse' = JsonResponse([success |-> FALSE, error |-> "exception"], 500)
                /\ hpc' = "done"
           ELSE IF MissingParameters(body)
           THEN /\ httpResponse' = JsonResponse([success |-> FALSE, error |-> "missing parameters"], 400)
                /\ hpc' = "done"
           ELSE /\ httpResponse' = httpResponse
                /\ hpc' = "getPullRequest"
    /\ UNCHANGED <<diffVars, requestVars, handler, httpRequest, upstream>>

\* const [owner, repo] = repositoryFullName.split('/')
OwnerOf(body) == SplitOn(body["repositoryFullName"], "/")[1]
RepoOf(body) ==
    LET parts == SplitOn(body["repositoryFullName"], "/")
    IN  IF Len(parts) >= 2 THEN parts[2] ELSE Undefined

\* the arguments the handler passes to the two Gitea calls
PullRequestCall(name, answer) ==
    [call |-> name,
     owner |-> OwnerOf(httpRequest.body),
     repo |-> RepoOf(httpRequest.body),
     pullNumber |-> httpRequest.body["pullRequestNumber"],
     token |-> httpRequest.token,
     answer |-> answer]

\* POST step 1: getPullRequest
CodeReviewGetPullRequest ==
    /\ handler = "POST" /\ hpc = "getPullRequest"
    /\ \E prResponse \in PullRequestAnswers :
          /\ upstream' = Append(upstream, PullRequestCall("getPullRequest", prResponse))
          /\ IF FailedObject(prResponse)
             THEN /\ httpResponse' = JsonResponse([success |-> FALSE,
                                                   error |-> <<"pull request failed", ErrorOf(prResponse)>>], 500)
                  /\ hpc' = "done"
             ELSE /\ httpResponse' = httpResponse
                  /\ hpc' = "getPullRequestDiff"
    /\ UNCHANGED <<diffVars, requestVars, handler, httpRequest>>

\* a handler that goes on to the review whatever the diff call answered
CodeReviewGetDiffGoingOn ==
    /\ handler = "POST" /\ hpc = "getPullRequestDiff"
    /\ \E diffResponse \in DiffAnswers :
          /\ upstream' = Append(upstream, PullRequestCall("getPullRequestDiff", diffResponse))
          /\ httpResponse' = httpResponse
          /\ hpc' = "generateCodeReview"
    /\ UNCHANGED <<diffVars, requestVars, handler, httpRequest>>

\* POST step 2: getPullRequestDiff
CodeReviewGetDiff ==
    /\ handler = "POST" /\ hpc = "getPullRequestDiff"
    /\ \E diffResponse \in DiffAnswers :
          /\ upstream' = Append(upstream, PullRequestCall("getPullRequestDiff", diffResponse))
          /\ IF FailedText(diffResponse)
             THEN /\ httpResponse' = JsonResponse([success |-> FALSE,
                                                   error |-> <<"diff failed", ErrorOf(diffResponse)>>], 500)
                  /\ hpc' = "done"
             ELSE /\ httpResponse' = httpResponse
                  /\ hpc' = "generateCodeReview"
    /\ UNCHANGED <<diffVars, requestVars, handler, httpRequest>>

\* POST steps 4 and 5: generateCodeReview with the title and body of the pull
\* request fetched and the diff fetched, then the answer
CodeReviewGenerate ==
    /\ handler = "POST" /\ hpc = "generateCodeReview"
    /\ LET pullRequest == upstream[1].answer.data
           diffResponse == upstream[2].answer
       IN  \E reviewResponse \in ReviewAnswers :
              /\ upstream' = Append(upstream, [call |-> "generateCodeReview",
                                               title |-> pullRequest.title,
                                               description |-> pullRequest.body,
                                               files |-> IF "data" \in DOMAIN diffResponse
                                                         THEN diffResponse.data ELSE "undefined",
                                               answer |-> reviewResponse])
              /\ IF FailedObject(reviewResponse)
                 THEN httpResponse' = JsonResponse([success |-> FALSE,
                                                    error |-> <<"review failed", ErrorOf(reviewResponse)>>], 500)
                 ELSE httpResponse' = JsonResponse([success |-> TRUE,
                                                    data |-> [reviewResponse.data EXCEPT
                                                                !.pullRequestId = pullRequest.id]], 200)
    /\ hpc' = "done"
    /\ UNCHANGED <<diffVars, requestVars, handler, httpRequest>>

\* the white space parseInt skips
WhiteSpace == {" ", "\t", "\n", "\r"}

RECURSIVE TrimStart(_)
TrimStart(s) == IF s # <<>> /\ Head(s) \in WhiteSpace THEN TrimStart(Tail(s)) ELSE s

HexDigits == Digits \cup {"a", "b", "c", "d", "e", "f", "A", "B", "C", "D", "E", "F"}

HexValue(c) ==
    IF c \in Digits THEN DigitValue(c)
    ELSE CASE c \in {"a", "A"} -> 10 [] c \in {"b", "B"} -> 11 [] c \in {"c", "C"} -> 12
           [] c \in {"d", "D"} -> 13 [] c \in {"e", "E"} -> 14 [] c \in {"f", "F"} -> 15

\* the longest prefix of s made of the characters of a set
RECURSIVE PrefixIn(_, _)
PrefixIn(s, set) ==
    IF s # <<>> /\ Head(s) \in set THEN << Head(s) >> \o PrefixIn(Tail(s), set) ELSE <<>>

RECURSIVE ParseHex(_)
ParseHex(ds) ==
    IF Len(ds) = 1 THEN HexValue(ds[1])
    ELSE 16 * ParseHex(SubSeq(ds, 1, Len(ds) - 1)) + HexValue(ds[Len(ds)])

\* a Number: NaN, or an integer value
NaN == [nan |-> TRUE, value |-> 0]
Number(n) == [nan |-> FALSE, value |-> n]
isNaN(number) == number.nan

\* parseInt(string) with no radix: leading white space is skipped, a sign is
\* taken, 0x or 0X selects base 16, and the digits up to the first character
\* that is none are read; NaN when there is no digit
parseInt(string) ==
    LET t      == TrimStart(string)
        signed == t # <<>> /\ Head(t) \in {"+", "-"}
        u      == IF signed THEN Tail(t) ELSE t
        hex    == Len(u) >= 2 /\ u[1] = "0" /\ u[2] \in {"x", "X"}
        ds     == IF hex THEN PrefixIn(SubSeq(u, 3, Len(u)), HexDigits)
                  ELSE PrefixIn(u, Digits)
        n      == IF hex THEN ParseHex(ds) ELSE ParseInt(ds)
    IN  IF ds = <<>> THEN NaN
        ELSE IF signed /\ Head(t) = "-" THEN Number(0 - n) ELSE Number(n)

\* the query of a pull-request-files request: searchParams.get gives null
\* for a parameter left out, modelled by the key not being there
QueryOf(key, values) == {<<>>} \cup {(key :> v) : v \in values}

FilesQueries ==
    {a @@ b @@ c @@ d :
        a \in QueryOf("owner", {<<>>, <<"o">>}),
        b \in QueryOf("repo", {<<>>, <<"r">>}),
        c \in QueryOf("pullNumber", {<<>>, <<"7">>, <<"1", "2", "a", "b", "c">>, <<"a", "b", "c">>, <<" ", "3">>, <<"-", "4">>, <<"0", "x", "1", "f">>, <<"0", "x">>}),
        d \in QueryOf("format", {"", "diff", "default", "DIFF"})}

\* searchParams.get(key) || fallback, and !searchParams.get(key)
QueryOr(query, key, fallback) ==
    IF key \in DOMAIN query /\ query[key] # "" THEN query[key] ELSE fallback
Missing(query, key) == key \notin DOMAIN query \/ query[key] = <<>>

FilesAnswers ==
    { [success |-> TRUE, data |-> << "file" >>],
      [success |-> FALSE, error |-> "files error"] }

\* a request to the pull-request-files route arrives
FilesInit ==
    /\ handler = "GET"
    /\ hpc = "token"
    /\ httpRequest \in [token : Tokens, query : FilesQueries]
    /\ upstream = <<>>
    /\ httpResponse = Null

\* GET: the token is checked
FilesToken ==
    /\ handler = "GET" /\ hpc = "token"
    /\ IF httpRequest.token = ""
       THEN /\ httpResponse' = JsonResponse([success |-> FALSE, error |-> "no token"], 401)
            /\ hpc' = "done"
       ELSE /\ httpResponse' = httpResponse
            /\ hpc' = "parameters"
    /\ UNCHANGED <<diffVars, requestVars, handler, httpRequest, upstream>>

\* a handler that checks only that the parameters are there
FilesParametersPresentOnly ==
    /\ handler = "GET" /\ hpc = "parameters"
    /\ LET query == httpRequest.query
       IN  IF Missing(query, "owner") \/ Missing(query, "repo") \/ Missing(query, "pullNumber")
           THEN /\ httpResponse' = JsonResponse([success |-> FALSE, error |-> "missing parameters"], 400)
                /\ hpc' = "done"
           ELSE /\ httpResponse' = httpResponse
                /\ hpc' = "fetch"
    /\ UNCHANGED <<diffVars, requestVars, handler, httpRequest, upstream>>

\* GET: owner, repo and pullNumber are there and pullNumber is a number
FilesParameters ==
    /\ handler = "GET" /\ hpc = "parameters"
    /\ LET query == httpRequest.query
       IN  IF Missing(query, "owner") \/ Missing(query, "repo") \/ Missing(query, "pullNumber")
           THEN /\ httpResponse' = JsonResponse([success |-> FALSE, error |-> "missing parameters"], 400)
                /\ hpc' = "done"
           ELSE IF isNaN(parseInt(query["pullNumber"]))
           THEN /\ httpResponse' = JsonResponse([success |-> FALSE, error |-> "not a number"], 400)
                /\ hpc' = "done"
           ELSE /\ httpResponse' = httpResponse
                /\ hpc' = "fetch"
    /\ UNCHANGED <<diffVars, requestVars, handler, httpRequest, upstream>>

\* the arguments the handler passes to the Gitea call
FilesCall(name, answer) ==
    [call |-> name,
     owner |-> httpRequest.query["owner"],
     repo |-> httpRequest.query["repo"],
     pullNumber |-> parseInt(httpRequest.query["pullNumber"]),
     token |-> httpRequest.token,
     answer |-> answer]

\* GET: the diff for format=diff, the list of files for any other format,
\* and the answer
FilesFetch ==
    /\ handler = "GET" /\ hpc = "fetch"
    /\ IF QueryOr(httpRequest.query, "format", "default") = "diff"
       THEN \E diff \in DiffAnswers :
               /\ upstream' = Append(upstream, FilesCall("getPullRequestDiff", diff))
               /\ httpResponse' =
                     IF ~diff.success
                     THEN JsonResponse([success |-> FALSE, error |-> ErrorOf(diff)], 500)
                     ELSE JsonResponse([success |-> TRUE, data |-> diff.data], 200)
       ELSE \E files \in FilesAnswers :
               /\ upstream' = Append(upstream, FilesCall("getPullRequestFiles", files))
               /\ httpResponse' =
                     IF ~files.success
                     THEN JsonResponse([success |-> FALSE, error |-> ErrorOf(files)], 500)
                     ELSE JsonResponse([success |-> TRUE, data |-> files.data], 200)
    /\ hpc' = "done"
    /\ UNCHANGED <<diffVars, requestVars, handler, httpRequest>>

\* what giteaAxios.get resolves with or throws for /user/repos: a list of
\* repositories, or an Error with its message
PrimaryAnswers ==
    { [ok |-> TRUE, data |-> << "own repository" >>],
      [ok |-> TRUE, data |-> <<>>],
      [ok |-> FALSE, message |-> "primary error"] }

\* and for /repos/search: a JSON object with the list in its data member or
\* without one, or an Error
SearchAnswers ==
    { [ok |-> TRUE, data |-> [ok |-> TRUE, data |-> << "visible repository" >>]],
      [ok |-> TRUE, data |-> [ok |-> TRUE]],
      [ok |-> FALSE, message |-> "search error"] }

\* getUserRepositories(token) is called
RepositoriesInit ==
    /\ handler = "getUserRepositories"
    /\ hpc = "primary"
    /\ httpRequest \in [token : Tokens]
    /\ upstream = <<>>
    /\ httpResponse = Null

\* the outer try: /user/repos with the token
RepositoriesPrimary ==
    /\ handler = "getUserRepositories" /\ hpc = "primary"
    /\ \E response \in PrimaryAnswers :
          /\ upstream' = Append(upstream, [call |-> "/user/repos",
                                           token |-> httpRequest.token,
                                           answer |-> response])
          /\ IF response.ok
             THEN /\ httpResponse' = [success |-> TRUE, data |-> response.data]
                  /\ hpc' = "done"
             ELSE /\ httpResponse' = httpResponse
                  /\ hpc' = "fallback"
    /\ UNCHANGED <<diffVars, requestVars, handler, httpRequest>>

\* a fallback that reports its own error when it fails
RepositoriesFallbackOwnError ==
    /\ handler = "getUserRepositories" /\ hpc = "fallback"
    /\ \E searchResponse \in SearchAnswers :
          /\ upstream' = Append(upstream, [call |-> "/repos/search", answer |-> searchResponse])
          /\ httpResponse' =
                IF searchResponse.ok
                THEN [success |-> TRUE,
                      data |-> IF "data" \in DOMAIN searchResponse.data
                               THEN searchResponse.data.data ELSE <<>>]
                ELSE [success |-> FALSE, error |-> searchResponse.message]
    /\ hpc' = "done"
    /\ UNCHANGED <<diffVars, requestVars, handler, httpRequest>>

\* the catch of the outer try: /repos/search, and in its own catch the
\* message of the first error
RepositoriesFallback ==
    /\ handler = "getUserRepositories" /\ hpc = "fallback"
    /\ \E searchResponse \in SearchAnswers :
          /\ upstream' = Append(upstream, [call |-> "/repos/search", answer |-> searchResponse])
          /\ httpResponse' =
                IF searchResponse.ok
                THEN [success |-> TRUE,
                      data |-> IF "data" \in DOMAIN searchResponse.data
                               THEN searchResponse.data.data ELSE <<>>]
                ELSE [success |-> FALSE, error |-> upstream[1].answer.message]
    /\ hpc' = "done"
    /\ UNCHANGED <<diffVars, requestVars, handler, httpRequest>>

HandlerInit ==
    /\ DiffIdle
    /\ RequestIdle
    /\ \/ CodeReviewInit
       \/ FilesInit
       \/ RepositoriesInit

HandlerNext ==
    \/ CodeReviewToken
    \/ CodeReviewBody
    \/ CodeReviewGetPullRequest
    \/ CodeReviewGetDiff
    \/ CodeReviewGenerate
    \/ FilesToken
    \/ FilesParameters
    \/ FilesFetch
    \/ RepositoriesPrimary
    \/ RepositoriesFallback

\* every await of a handler settles: the services catch their own errors
\* and the HTTP client answers or fails
HandlerSpec == HandlerInit /\ [][HandlerNext]_vars /\ WF_vars(HandlerNext)

(***************************************************************************)
(* Definitions the properties are stated with.  They read the input and    *)
(* the results only; none of them is part of the program.                  *)
(***************************************************************************)
RECURSIVE SumSeq(_)
SumSeq(ns) == IF ns = <<>> THEN 0 ELSE Head(ns) + SumSeq(Tail(ns))

RECURSIVE ConcatValues(_)
ConcatValues(entries) ==
    IF entries = <<>> THEN <<>> ELSE Head(entries).value \o ConcatValues(Tail(entries))

\* the lines of the input (the last one is what follows the last line break)
InputLines == lines

\* parseDiff has returned
Parsed == pc \in {"summarize", "split", "process", "done", "extracted"}

\* summarizeDiff has returned
Summarized == pc \in {"split", "process", "done", "extracted"}

\* splitDiffByFiles has returned
Segmented == pc \in {"process", "done", "extracted"}

\* processDiffToGiteaFiles has returned
Processed == pc = "done"

\* parseDiff has just returned
ParseReturned == pc = "summarize"

\* splitDiffByFiles has just returned
SplitReturned == pc = "process"

\* the FileDiffs built so far, pushed or under construction, in input order
AllDiffs == IF currentDiff # Null /\ ~Parsed THEN Append(diffs, currentDiff) ELSE diffs

\* the number of DiffLines of type t in the chunks of FileDiff d
LinesOfType(d, t) ==
    Cardinality({cl \in UNION {{<<c, l>> : l \in 1..Len(d.chunks[c].lines)} :
                                   c \in 1..Len(d.chunks)} :
                    d.chunks[cl[1]].lines[cl[2]].type = t})

(***************************************************************************)
(* C1: summarizeDiff reports one entry per FileDiff, whose insertions is   *)
(* the number of added lines in that file's chunks and whose deletions is  *)
(* the number of removed lines; the diff of Scenario 1 (one context line,  *)
(* one "-" line, two "+" lines) gives one file, insertions 2, deletions 1. *)
(***************************************************************************)
C1_SummaryCounts ==
    Summarized =>
        /\ Len(summary.fileChanges) = Len(diffs)
        /\ \A k \in 1..Len(diffs) :
              /\ summary.fileChanges[k].insertions = LinesOfType(diffs[k], "added")
              /\ summary.fileChanges[k].deletions = LinesOfType(diffs[k], "removed")
        /\ (diffStr = Scenario1 =>
              /\ Len(summary.fileChanges) = 1
              /\ summary.fileChanges[1].insertions = 2
              /\ summary.fileChanges[1].deletions = 1)

C1_Witness ==
    /\ Summarized
    /\ diffStr = Scenario1
    /\ Len(diffs) = 1
    /\ Len(diffs[1].chunks) = 1
    /\ Len(diffs[1].chunks[1].lines) = 4
    /\ summary.fileChanges[1].insertions = 2
    /\ summary.fileChanges[1].deletions = 1

(***************************************************************************)
(* File headers as the Segmenter's contract describes them: a line ended   *)
(* by a line break that holds "diff --git a/<path> b/<path>" (and no       *)
(* carriage return in the paths).                                          *)
(***************************************************************************)
\* the positions in a line where a header starts
HeaderStarts(line) ==
    {p \in 1..Len(line) :
        /\ LitAt(line, p, <<"d", "i", "f", "f", " ", "-", "-", "g", "i", "t", " ", "a", "/">>)
        /\ \E q \in (p + 13)..Len(line) : LitAt(line, q, <<" ", "b", "/">>)
        /\ \A r \in (p + 13)..Len(line) : line[r] # "\r"}

\* the a/ path of a header line
HeaderPath(line) ==
    LET p == Least(HeaderStarts(line))
        q == Least({r \in (p + 13)..Len(line) : LitAt(line, r, <<" ", "b", "/">>)})
    IN  SubSeq(line, p + 13, q - 1)

\* the input lines, in order, that are file headers
HeaderLineIdx ==
    {k \in 1..(Len(InputLines) - 1) : HeaderStarts(InputLines[k]) # {}}

\* the a/ paths of the headers are pairwise distinct
DistinctPaths ==
    \A k, l \in HeaderLineIdx :
        HeaderPath(InputLines[k]) = HeaderPath(InputLines[l]) => k = l

\* the input begins with a file header
StartsWithHeader == 1 \in HeaderLineIdx /\ 1 \in HeaderStarts(InputLines[1])

\* no a/ path is an array index such as "1", nor "__proto__"
PlainPaths ==
    \A k \in HeaderLineIdx :
        /\ ~IsArrayIndex(HeaderPath(InputLines[k]))
        /\ HeaderPath(InputLines[k]) # <<"_", "_", "p", "r", "o", "t", "o", "_", "_">>

FileLineIdx == {k \in 1..Len(lines) : StartsWith(lines[k], <<"d", "i", "f", "f", " ", "-", "-", "g", "i", "t", " ">>)}

\* a line matched hunk header: it opens a chunk
IsHunkHeader(line) == StartsWith(line, <<"@", "@", " ">>) /\ HunkHeaderMatch(line) # Null

IsPathLine(line) ==
    \/ StartsWith(line, <<"-", "-", "-", " ", "a", "/">>)
    \/ StartsWith(line, <<"+", "+", "+", " ", "b", "/">>)
    \/ StartsWith(line, <<"+", "+", "+", " ", "/", "d", "e", "v", "/", "n", "u", "l", "l">>)
    \/ StartsWith(line, <<"-", "-", "-", " ", "/", "d", "e", "v", "/", "n", "u", "l", "l">>)

\* a line with a "+", "-" or " " marker that is no path line
IsContent(line) ==
    /\ line # <<>>
    /\ line[1] \in {"+", "-", " "}
    /\ ~IsPathLine(line)

\* the file header that opens the section of line k, 0 before the first one
SectionOf(k) ==
    LET before == {j \in FileLineIdx : j <= k}
    IN  IF before = {} THEN 0 ELSE CHOOSE j \in before : \A l \in before : l <= j

\* line k lies after a hunk header of its own file section
AfterHunkHeader(k) ==
    \E h \in (SectionOf(k) + 1)..(k - 1) : IsHunkHeader(lines[h])

\* The diffs both consumption paths can take apart alike: every file section
\* starts at a line "diff --git a/<path> b/<path>" ended by a line break, the
\* a/ paths are pairwise distinct and none is an array index or "__proto__",
\* and within a section no content line comes before the first hunk header.
Segmentable ==
    /\ FileLineIdx = HeaderLineIdx
    /\ \A k \in HeaderLineIdx : 1 \in HeaderStarts(lines[k])
    /\ DistinctPaths
    /\ PlainPaths
    /\ \A k \in 1..Len(lines) :
          (SectionOf(k) # 0 /\ IsContent(lines[k])) => AfterHunkHeader(k)

\* the b/ path of a line "diff --git a/<path> b/<path>"
HeaderNewPath(line) ==
    LET q == Least({r \in 14..Len(line) : LitAt(line, r, <<" ", "b", "/">>)})
    IN  SubSeq(line, q + 3, Len(line))

\* what line k may be in a diff as git writes it, after a line of phase ph:
\* the phase it leaves ("bad" if it may not be there).  hdr is the file header
\* of the section.
LinePhase(ph, line, hdr) ==
    IF ph \in {"top", "hunk"} /\ 1 \in HeaderStarts(line) THEN "hdr"
    ELSE IF ph = "hdr" /\ (\/ StartsWith(line, <<"i", "n", "d", "e", "x", " ">>)
                           \/ StartsWith(line, <<"n", "e", "w", " ", "f", "i", "l", "e", " ", "m", "o", "d", "e", " ">>)
                           \/ StartsWith(line, <<"d", "e", "l", "e", "t", "e", "d", " ", "f", "i", "l", "e", " ", "m", "o", "d", "e", " ">>)) THEN "hdr"
    ELSE IF ph = "hdr" /\ (\/ line = <<"-", "-", "-", " ", "a", "/">> \o HeaderPath(hdr)
                           \/ line = <<"-", "-", "-", " ", "/", "d", "e", "v", "/", "n", "u", "l", "l">>) THEN "old"
    ELSE IF ph = "old" /\ (\/ line = <<"+", "+", "+", " ", "b", "/">> \o HeaderNewPath(hdr)
                           \/ line = <<"+", "+", "+", " ", "/", "d", "e", "v", "/", "n", "u", "l", "l">>) THEN "new"
    ELSE IF ph \in {"new", "hunk"} /\ IsHunkHeader(line) /\ 1 = Least({p \in 1..Len(line) : HunkHeaderAt(line, p) # Null})
         THEN "hunk"
    ELSE IF ph = "hunk" /\ line # <<>> /\ line[1] \in {"+", "-", " "} THEN "hunk"
    ELSE IF ph = "hunk" /\ line = <<"\\", " ", "N", "o", " ", "n", "e", "w", "l", "i", "n", "e", " ", "a", "t", " ", "e", "n", "d", " ", "o", "f", " ", "f", "i", "l", "e">> THEN "hunk"
    ELSE "bad"

RECURSIVE PhaseAfter(_)
PhaseAfter(k) ==
    IF k = 0 THEN "top"
    ELSE LET ph == PhaseAfter(k - 1)
         IN  IF ph = "bad" THEN "bad"
             ELSE LinePhase(ph, lines[k], IF SectionOf(k) = 0 THEN <<>> ELSE lines[SectionOf(k)])

\* A diff as git writes it: file sections of a header, optional mode and
\* index lines, the "---" and "+++" lines naming the paths of the header (or
\* /dev/null), and one or more hunks; the text ends with a line break; the
\* a/ paths are pairwise distinct and none is an array index or "__proto__".
WellFormed ==
    /\ Len(lines) >= 2
    /\ lines[Len(lines)] = <<>>
    /\ PhaseAfter(Len(lines) - 1) = "hunk"
    /\ DistinctPaths
    /\ PlainPaths

\* the per-file results of the two paths as sets of [file, insertions, deletions]
SegmentResults ==
    {[file |-> giteaFiles[k].filename, insertions |-> giteaFiles[k].additions,
      deletions |-> giteaFiles[k].deletions] : k \in 1..Len(giteaFiles)}

BlobResults ==
    {[file |-> summary.fileChanges[k].file, insertions |-> summary.fileChanges[k].insertions,
      deletions |-> summary.fileChanges[k].deletions] : k \in 1..Len(summary.fileChanges)}

SegmentTotals ==
    /\ SumSeq([k \in 1..Len(giteaFiles) |-> giteaFiles[k].additions]) = summary.insertions
    /\ SumSeq([k \in 1..Len(giteaFiles) |-> giteaFiles[k].deletions]) = summary.deletions

C3_WellFormedSegmentable == (Processed /\ WellFormed) => Segmentable

Nth(S, n) == CHOOSE x \in S : Cardinality({y \in S : y <= x}) = n

\* the lines read so far that opened a chunk in the f-th file section
ChunkHeaderIdx(f) ==
    {k \in 1..i : /\ SectionOf(k) = Nth(FileLineIdx, f)
                  /\ IsHunkHeader(lines[k])}

\* the line that opened chunk c of the f-th FileDiff
ChunkHeader(f, c) == lines[Nth(ChunkHeaderIdx(f), c)]

\* the starting line numbers written in a hunk header
HeaderOldStart(line) == ParseInt(HunkHeaderMatch(line).g1)
HeaderNewStart(line) == ParseInt(HunkHeaderMatch(line).g3)

\* the chunks built so far, as <<file, chunk>> positions in AllDiffs
ChunkPositions ==
    UNION {{<<f, c>> : c \in 1..Len(AllDiffs[f].chunks)} : f \in 1..Len(AllDiffs)}

\* every chunk was opened by a hunk header of its own file section
ChunksMatchHeaders ==
    \A f \in 1..Len(AllDiffs) : Len(AllDiffs[f].chunks) = Cardinality(ChunkHeaderIdx(f))

(***************************************************************************)
(* C4: in every chunk parseDiff returns, oldStart and newStart are the     *)
(* starting line numbers written in the hunk header that opened it.        *)
(***************************************************************************)
C4_StartsFromHeader ==
    Parsed =>
        \A fc \in ChunkPositions :
            LET ch == diffs[fc[1]].chunks[fc[2]]
            IN  /\ ch.oldStart = HeaderOldStart(ChunkHeader(fc[1], fc[2]))
                /\ ch.newStart = HeaderNewStart(ChunkHeader(fc[1], fc[2]))

(***************************************************************************)
(* C7: every DiffLine has the line numbers of its type: an added line a    *)
(* newLineNumber and no oldLineNumber, a removed line an oldLineNumber and *)
(* no newLineNumber, a context line both.                                  *)
(***************************************************************************)
LineNumbersOfType(ln) ==
    /\ ln.type = "added"   => DOMAIN ln = {"type", "content", "newLineNumber"}
    /\ ln.type = "removed" => DOMAIN ln = {"type", "content", "oldLineNumber"}
    /\ ln.type = "context" => DOMAIN ln = {"type", "content", "oldLineNumber", "newLineNumber"}
    /\ ln.type \in {"added", "removed", "context"}

C7_LineNumberFields ==
    \A fc \in ChunkPositions :
        LET ls == AllDiffs[fc[1]].chunks[fc[2]].lines
        IN  \A l \in 1..Len(ls) : LineNumbersOfType(ls[l])

C7_Witness ==
    /\ Parsed
    /\ Len(diffs) = 1
    /\ Len(diffs[1].chunks) = 1
    /\ {diffs[1].chunks[1].lines[l].type : l \in 1..Len(diffs[1].chunks[1].lines)}
         = {"added", "removed", "context"}

(***************************************************************************)
(* C8: the line numbers are counted per chunk from its header: the j-th    *)
(* line of a chunk that carries a newLineNumber has the header's new start *)
(* plus j - 1, the j-th line that carries an oldLineNumber the header's    *)
(* old start plus j - 1.                                                   *)
(***************************************************************************)
HasNew(ln) == "newLineNumber" \in DOMAIN ln
HasOld(ln) == "oldLineNumber" \in DOMAIN ln

C8_CountersPerChunk ==
    ChunksMatchHeaders /\
    \A fc \in ChunkPositions :
        LET ls  == AllDiffs[fc[1]].chunks[fc[2]].lines
            hdr == ChunkHeader(fc[1], fc[2])
        IN  \A l \in 1..Len(ls) :
              /\ HasNew(ls[l]) =>
                   ls[l].newLineNumber =
                     HeaderNewStart(hdr) + Cardinality({m \in 1..(l - 1) : HasNew(ls[m])})
              /\ HasOld(ls[l]) =>
                   ls[l].oldLineNumber =
                     HeaderOldStart(hdr) + Cardinality({m \in 1..(l - 1) : HasOld(ls[m])})

\* two chunks of one file, the second numbered from its own header
C8_Witness ==
    /\ Parsed
    /\ diffStr = TwoHunks
    /\ Len(diffs[1].chunks) = 2
    /\ diffs[1].chunks[1].lines[3].newLineNumber = 7
    /\ diffs[1].chunks[1].lines[3].oldLineNumber = 4
    /\ diffs[1].chunks[2].lines[1].oldLineNumber = 10
    /\ diffs[1].chunks[2].lines[3].newLineNumber = 12

(***************************************************************************)
(* The parser's state machine as the design describes it, read off the     *)
(* lines alone: "outside" before the first file header, "infile" after a   *)
(* file header, "inhunk" after a recognized hunk header, "skipping" after  *)
(* a malformed hunk header (no hunk is open until the next recognized      *)
(* header).                                                                *)
(***************************************************************************)
RECURSIVE PhaseAt(_)
PhaseAt(k) ==
    IF k = 0 THEN "outside"
    ELSE LET ph == PhaseAt(k - 1)
         IN  IF StartsWith(lines[k], <<"d", "i", "f", "f", " ", "-", "-", "g", "i", "t", " ">>) THEN "infile"
             ELSE IF ph = "outside" THEN "outside"
             ELSE IF IsHunkHeader(lines[k]) THEN "inhunk"
             ELSE IF StartsWith(lines[k], <<"@", "@", " ">>) THEN "skipping"
             ELSE ph

\* the loop is about to read a line with a "+", "-" or " " marker
ReadsMarkedLine ==
    /\ pc = "loop"
    /\ i < Len(lines)
    /\ lines[i + 1] # <<>>
    /\ lines[i + 1][1] \in {"+", "-", " "}

MarkerType(c) == IF c = "+" THEN "added" ELSE IF c = "-" THEN "removed" ELSE "context"

\* the lines of all chunks of a FileDiff sequence
ChunkLines(ds) ==
    [f \in 1..Len(ds) |-> [c \in 1..Len(ds[f].chunks) |-> ds[f].chunks[c].lines]]

\* the FileDiffs after a step of the loop
AllDiffsNext == IF currentDiff' # Null THEN Append(diffs', currentDiff') ELSE diffs'

(***************************************************************************)
(* C5: while a hunk is open, a line with a "+", "-" or " " marker is       *)
(* appended to that hunk as an added, removed or context line whose text   *)
(* is the line without its first character, whatever follows the marker,   *)
(* and nothing else of the FileDiff changes.                               *)
(***************************************************************************)
C5_MarkedLineAppended ==
    [][(ReadsMarkedLine /\ PhaseAt(i) = "inhunk") =>
          LET n    == Len(currentDiff.chunks)
              ls   == currentDiff.chunks[n].lines
              line == lines[i + 1]
          IN  /\ diffs' = diffs
              /\ currentDiff'.oldFile = currentDiff.oldFile
              /\ currentDiff'.newFile = currentDiff.newFile
              /\ currentDiff'.isDeleted = currentDiff.isDeleted
              /\ currentDiff'.isNew = currentDiff.isNew
              /\ Len(currentDiff'.chunks) = n
              /\ \A c \in 1..(n - 1) : currentDiff'.chunks[c] = currentDiff.chunks[c]
              /\ Len(currentDiff'.chunks[n].lines) = Len(ls) + 1
              /\ SubSeq(currentDiff'.chunks[n].lines, 1, Len(ls)) = ls
              /\ currentDiff'.chunks[n].lines[Len(ls) + 1].type = MarkerType(line[1])
              /\ currentDiff'.chunks[n].lines[Len(ls) + 1].content = Tail(line)
      ]_vars

(***************************************************************************)
(* C6: after a malformed hunk header no hunk is open: a line with a "+",   *)
(* "-" or " " marker that follows it, before the next recognized hunk      *)
(* header or file header, is appended to no chunk.                         *)
(***************************************************************************)
C6_MalformedHeaderSkips ==
    [][(ReadsMarkedLine /\ PhaseAt(i) = "skipping") =>
          ChunkLines(AllDiffsNext) = ChunkLines(AllDiffs)
      ]_vars

(***************************************************************************)
(* C9: the totals of the summary are the sums over its fileChanges, and    *)
(* filesChanged is their number.                                           *)
(***************************************************************************)
C9_SummaryConsistent ==
    Summarized =>
        LET fcs == summary.fileChanges
        IN  /\ summary.insertions = SumSeq([k \in 1..Len(fcs) |-> fcs[k].insertions])
            /\ summary.deletions = SumSeq([k \in 1..Len(fcs) |-> fcs[k].deletions])
            /\ summary.filesChanged = Len(fcs)

C9_Witness ==
    /\ Summarized
    /\ Len(summary.fileChanges) = 2
    /\ \A k \in 1..2 : /\ summary.fileChanges[k].insertions >= 1
                        /\ summary.fileChanges[k].deletions >= 1
    /\ summary.insertions = 2
    /\ summary.deletions = 2

(***************************************************************************)
(* C10: the file name of a summary entry is the FileDiff's oldFile when    *)
(* isDeleted and its newFile otherwise.  Read off the input: a section     *)
(* with a "+++ /dev/null" line is reported under the path of its last      *)
(* "--- a/" line, any other section under the path of its last "+++ b/"    *)
(* line; the deleted file of Scenario 3 is reported as old.txt.            *)
(***************************************************************************)
\* the lines of the f-th file section that start with prefix
SectionLinesWith(f, prefix) ==
    {k \in 1..Len(lines) : /\ SectionOf(k) = Nth(FileLineIdx, f)
                           /\ StartsWith(lines[k], prefix)}

\* the path of the last line "<prefix><path>" of the f-th section, "" if none
LastPathOf(f, prefix) ==
    LET ks == SectionLinesWith(f, prefix)
    IN  IF ks = {} THEN <<>>
        ELSE SubSeq(lines[Nth(ks, Cardinality(ks))], Len(prefix) + 1,
                    Len(lines[Nth(ks, Cardinality(ks))]))

C10_FileName ==
    Summarized =>
        /\ \A k \in 1..Len(diffs) :
              /\ summary.fileChanges[k].file =
                   IF diffs[k].isDeleted THEN diffs[k].oldFile ELSE diffs[k].newFile
              /\ summary.fileChanges[k].file =
                   IF SectionLinesWith(k, <<"+", "+", "+", " ", "/", "d", "e", "v", "/", "n", "u", "l", "l">>) # {}
                   THEN LastPathOf(k, <<"-", "-", "-", " ", "a", "/">>)
                   ELSE LastPathOf(k, <<"+", "+", "+", " ", "b", "/">>)
        /\ (diffStr = Scenario3 => summary.fileChanges[1].file = <<"o", "l", "d", ".", "t", "x", "t">>)

C10_Witness ==
    /\ Summarized
    /\ diffStr = Scenario3
    /\ Len(diffs) = 1
    /\ diffs[1].isDeleted
    /\ diffs[1].newFile = <<>>
    /\ summary.fileChanges[1].file = <<"o", "l", "d", ".", "t", "x", "t">>

(***************************************************************************)
(* C11: status and the parser's flags.                                     *)
(***************************************************************************)
\* the status the derived helper maps a FileDiff to
StatusOfFlags(diff) ==
    IF diff.isDeleted THEN "removed" ELSE IF diff.isNew THEN "added" ELSE "modified"

\* C11: the status processDiffToGiteaFiles gives a segment is the one the
\* flags of parseDiff on that same segment give: removed if isDeletedFile,
\* else added if isNewFile, else modified
C11_StatusAgreesWithFlags ==
    Processed =>
        \A k \in 1..Len(giteaFiles) :
            LET ds == parseDiff(fileDiffs[k].value)
            IN  Len(ds) = 1 => giteaFiles[k].status = StatusOfFlags(ds[1])

(***************************************************************************)
(* C12: the flags of a FileDiff and the /dev/null marker lines of its      *)
(* section.  A marker line is a line of the section that starts with the   *)
(* marker text, wherever in the section it stands.                         *)
(***************************************************************************)
OldNullIn(f) == SectionLinesWith(f, <<"-", "-", "-", " ", "/", "d", "e", "v", "/", "n", "u", "l", "l">>) # {}

NewNullIn(f) == SectionLinesWith(f, <<"+", "+", "+", " ", "/", "d", "e", "v", "/", "n", "u", "l", "l">>) # {}

\* C12: isNewFile is true exactly when the section has a "--- /dev/null"
\* marker line and isDeletedFile exactly when it has a "+++ /dev/null" marker
\* line, each whatever the other is; both are false with neither marker
C12_FlagsFollowMarkers ==
    ParseReturned =>
        \A f \in 1..Len(diffs) :
            /\ diffs[f].isNew = OldNullIn(f)
            /\ diffs[f].isDeleted = NewNullIn(f)
            /\ (~OldNullIn(f) /\ ~NewNullIn(f) => ~diffs[f].isNew /\ ~diffs[f].isDeleted)

\* a section with both markers, the deleted one first, has both flags set
C12_Witness ==
    /\ ParseReturned
    /\ Len(diffs) = 1
    /\ lines = <<HdrX, NewNull, OldNull>>
    /\ diffs[1].isNew /\ diffs[1].isDeleted

(***************************************************************************)
(* C13: inputs without a file header line.                                 *)
(***************************************************************************)
\* C13: for an input none of whose lines begins with "diff --git " (the
\* empty string among them) splitDiffByFiles returns an empty mapping,
\* parseDiff an empty sequence and summarizeDiff zero counts and an empty
\* fileChanges
C13_NoHeaderAllEmpty ==
    Segmented /\ FileLineIdx = {} =>
        /\ fileDiffs = <<>>
        /\ diffs = <<>>
        /\ summary.filesChanged = 0
        /\ summary.insertions = 0
        /\ summary.deletions = 0
        /\ summary.fileChanges = <<>>

(***************************************************************************)
(* C14: termination.  Every step brings the calls nearer to their end, a   *)
(* step can be taken until all of them have returned, and at the end the   *)
(* loop of parseDiff has gone once over all the lines.                     *)
(***************************************************************************)
\* the number of steps that remain: the lines the loop of parseDiff has not
\* read yet, and the steps after the loop
StepsLeft ==
    CASE pc = "parseDiff" -> Len(SplitLines(diffStr)) + 5
      [] pc = "loop"      -> (Len(lines) - i) + 4
      [] pc = "summarize" -> 3
      [] pc = "split"     -> 2
      [] pc = "process"   -> 1
      [] pc = "done"      -> 0
      [] pc = "extracted" -> 0

\* the header offsets the while loop of splitDiffByFiles finds go forward
\* through the input
HeadersForward ==
    LET hs == FileHeaders(diffStr)
    IN  \A k \in 1..Len(hs) :
            /\ hs[k].index < Len(diffStr)
            /\ k < Len(hs) => hs[k].index < hs[k + 1].index

\* C14: on every input parseDiff, summarizeDiff and splitDiffByFiles come to
\* an end after one pass forward over the whole input: each step reduces the
\* steps that remain, the loop reads the lines one after the other whatever
\* they hold, no call stops before its end, and what was gathered is returned
C14_Terminates ==
    /\ [][/\ StepsLeft' < StepsLeft
          /\ pc = "loop" /\ pc' = "loop" => i' = i + 1]_vars
    /\ [](/\ StepsLeft >= 0
          /\ pc = "loop" => i <= Len(lines)
          /\ Parsed => i = Len(lines)
          /\ ParseReturned => lines = SplitLines(diffStr)
          /\ Summarized => summary # Null /\ summary.filesChanged = Len(diffs)
          /\ SplitReturned => HeadersForward)

\* the parse of the input with a malformed hunk header has run to its end
\* and returned the file with the two hunks whose headers match
C14_Witness ==
    /\ pc = "done"
    /\ diffStr = Malformed
    /\ i = Len(lines)
    /\ \E k \in 1..Len(lines) : StartsWith(lines[k], <<"@", "@", " ">>) /\ HunkHeaderMatch(lines[k]) = Null
    /\ Len(diffs) = 1
    /\ Len(diffs[1].chunks) = 2

(***************************************************************************)
(* C15: no state between calls.                                            *)
(***************************************************************************)
\* C15: whatever calls came before and in whatever order, a call returns
\* what every earlier call on the same input returned: the same FileDiffs,
\* the same summary, the same segments
C15_SameInputSameOutput ==
    /\ \A k, l \in 1..Len(returned) :
          returned[k].input = returned[l].input => returned[k] = returned[l]
    /\ pc = "done" =>
          \A k \in 1..Len(returned) : returned[k].input = diffStr => returned[k] = Outcome

\* the third call is on the input of the first, with a call on another
\* input between them, and it has returned
C15_Witness ==
    /\ pc = "done"
    /\ Len(returned) = 2
    /\ returned[1].input = diffStr
    /\ returned[2].input # diffStr
    /\ Len(diffs) = 2
    /\ Len(returned[2].diffs) = 1
    /\ returned[1] = Outcome

(***************************************************************************)
(* C16: extractFileDiff.                                                   *)
(***************************************************************************)
Extracted == pc = "extracted"

\* the a/ paths the header pattern captures in the input
HeaderNames == {FileHeaders(diffStr)[h].fileName : h \in 1..Len(FileHeaders(diffStr))}

\* C16: extractFileDiff returns the segment of fileName exactly when
\* splitDiffByFiles has an entry with that key, and null for every fileName
\* that is not the a/ path of a file header of the input
C16_ExtractFileDiff ==
    Extracted =>
        /\ HasKey(fileDiffs, extracted.fileName) <=> extracted.result.kind = "string"
        /\ \A k \in 1..Len(fileDiffs) :
              fileDiffs[k].key = extracted.fileName => extracted.result.value = fileDiffs[k].value
        /\ extracted.fileName \notin HeaderNames => extracted.result.kind = "null"

(***************************************************************************)
(* C17: one FileDiff per "diff --git " line.                               *)
(***************************************************************************)
\* what is pushed when the FileDiff under construction, if any, is pushed
WithCurrentPushed == IF currentDiff # Null THEN Append(diffs, currentDiff) ELSE diffs

\* the "diff --git " lines read so far
FileLinesRead == {k \in FileLineIdx : k <= i}

\* C17: parseDiff returns one FileDiff per line that begins with
\* "diff --git ", in the order of these lines.  At each such line the
\* FileDiff under construction, if there is one, is pushed and a fresh one
\* (empty paths, false flags, no hunks) is started; no other line pushes or
\* drops a FileDiff; at the end of the input the one under construction is
\* appended.
C17_OneFileDiffPerHeader ==
    /\ [][/\ (pc = "loop" /\ pc' = "loop") =>
                IF StartsWith(lines[i + 1], <<"d", "i", "f", "f", " ", "-", "-", "g", "i", "t", " ">>)
                THEN /\ diffs' = WithCurrentPushed
                     /\ currentDiff' = [oldFile |-> <<>>, newFile |-> <<>>, isDeleted |-> FALSE,
                                        isNew |-> FALSE, chunks |-> <<>>]
                ELSE /\ Len(diffs') = Len(diffs)
                     /\ (currentDiff' = Null) = (currentDiff = Null)
          /\ (pc = "loop" /\ pc' = "summarize") => diffs' = WithCurrentPushed]_vars
    /\ [](/\ pc = "loop" => Len(AllDiffs) = Cardinality(FileLinesRead)
          /\ ParseReturned =>
                /\ Len(diffs) = Cardinality(FileLineIdx)
                /\ \A f \in 1..Len(diffs) :
                      /\ diffs[f].oldFile = LastPathOf(f, <<"-", "-", "-", " ", "a", "/">>)
                      /\ diffs[f].newFile = LastPathOf(f, <<"+", "+", "+", " ", "b", "/">>))

\* the two files of scenario 5 are returned in the order of their headers
C17_Witness ==
    /\ ParseReturned
    /\ diffStr = Scenario5
    /\ Cardinality(FileLineIdx) = 2
    /\ Len(diffs) = 2
    /\ diffs[1].oldFile # diffs[2].oldFile
    /\ diffs[2].oldFile = LastPathOf(2, <<"-", "-", "-", " ", "a", "/">>)

(***************************************************************************)
(* C18: a hunk takes lines of its own file section only.                   *)
(***************************************************************************)
\* C18: a line that follows a "diff --git " line and comes before the first
\* recognized hunk header of that file is ignored: the FileDiffs pushed
\* before stay as they are, lines and line counts of their hunks included,
\* and the new FileDiff still has no hunk
C18_HunkOwnSection ==
    [][(/\ pc = "loop" /\ pc' = "loop"
        /\ SectionOf(i + 1) \notin {0, i + 1}
        /\ ~IsHunkHeader(lines[i + 1])
        /\ ~AfterHunkHeader(i + 1)) =>
            /\ diffs' = diffs
            /\ currentDiff'.chunks = <<>>]_vars

(***************************************************************************)
(* C19: key and value of an entry, read off the input.                     *)
(***************************************************************************)
\* the 0-based offset in the input of the first character of line k
RECURSIVE LineOffset(_)
LineOffset(k) == IF k = 1 THEN 0 ELSE LineOffset(k - 1) + Len(InputLines[k - 1]) + 1

\* the 0-based offset of the header of header line k
HeaderOffset(k) == LineOffset(k) + Least(HeaderStarts(InputLines[k])) - 1

\* the offset at which the segment of header line k ends: that of the next
\* header, or the end of the input
SegmentEnd(k) ==
    IF \E l \in HeaderLineIdx : l > k
    THEN HeaderOffset(Least({l \in HeaderLineIdx : l > k}))
    ELSE Len(diffStr)

\* the header lines of a text
HeaderLinesOf(text) ==
    {k \in 1..(Len(SplitLines(text)) - 1) : HeaderStarts(SplitLines(text)[k]) # {}}

HeaderLinesOfPath(path) == {k \in HeaderLineIdx : HeaderPath(InputLines[k]) = path}

\* the entries whose key is path
EntriesOfPath(path) == {e \in 1..Len(fileDiffs) : fileDiffs[e].key = path}

\* the last (greatest) element of a non-empty set of integers
Last(S) == CHOOSE m \in S : \A n \in S : n <= m

\* C20: when two or more headers of the input share an a/ path, the mapping
\* has one entry with that key, and its value is the segment of the last of
\* these headers; nothing is left of the earlier segments
C20_LastSegmentWins ==
    Segmented =>
        \A k \in HeaderLineIdx :
            LET path  == HeaderPath(InputLines[k])
                sames == HeaderLinesOfPath(path)
            IN  Cardinality(sames) >= 2 =>
                    /\ Cardinality(EntriesOfPath(path)) = 1
                    /\ \A e \in EntriesOfPath(path) :
                          fileDiffs[e].value =
                              Substring2(diffStr, HeaderOffset(Last(sames)), SegmentEnd(Last(sames)))

(***************************************************************************)
(* C21: the line counts of a hunk.                                         *)
(***************************************************************************)
\* the count written after the comma of a range of a hunk header, 1 when
\* the range has no count
WrittenCount(digits) == IF digits = <<>> THEN 1 ELSE ParseInt(digits)

HeaderOldCount(line) == WrittenCount(HunkHeaderMatch(line).g2)

HeaderNewCount(line) == WrittenCount(HunkHeaderMatch(line).g4)

\* C21: at every point of the parse and in what parseDiff returns, the
\* oldLineCount and newLineCount of a hunk are the counts written in its
\* header, a written 0 included, and 1 for a range without count; the lines
\* the hunk takes do not change them
C21_CountsFromHeader ==
    (pc = "loop" \/ ParseReturned) =>
        /\ ChunksMatchHeaders
        /\ \A fc \in ChunkPositions :
              LET ch == AllDiffs[fc[1]].chunks[fc[2]]
              IN  /\ ch.oldLines = HeaderOldCount(ChunkHeader(fc[1], fc[2]))
                  /\ ch.newLines = HeaderNewCount(ChunkHeader(fc[1], fc[2]))
        /\ (diffStr = ZeroCount /\ ParseReturned =>
              /\ diffs[1].chunks[1].oldLines = 0
              /\ diffs[1].chunks[1].newLines = 2
              /\ Len(diffs[1].chunks[1].lines) = 1)
        /\ (diffStr = Scenario1 /\ ParseReturned =>
              /\ diffs[1].chunks[1].oldLines = 2
              /\ diffs[1].chunks[1].newLines = 3
              /\ Len(diffs[1].chunks[1].lines) = 4)

\* a header that declares no old line and two new lines, with one line
\* after it
C21_Witness ==
    /\ ParseReturned
    /\ diffStr = ZeroCount
    /\ Len(diffs) = 1
    /\ diffs[1].chunks[1].oldLines = 0
    /\ diffs[1].chunks[1].newLines = 2
    /\ Len(diffs[1].chunks[1].lines) = 1

(***************************************************************************)
(* C22: the retries of the response interceptor.                           *)
(***************************************************************************)
\* the request has settled: request() has returned
Settled == rpc = "settled"

\* the re-sends started so far
Resends ==
    IF rpc \in {"retryDelay", "requestInterceptor", "dispatch"}
    THEN Len(attempts)
    ELSE IF attempts = <<>> THEN 0 ELSE Len(attempts) - 1

\* C22: a failed request is sent again at most maxRetries times, so there
\* are never more than maxRetries + 1 attempts, and not at all when
\* maxRetries is left out or 0; the retry counter goes up by exactly one with
\* each re-send and by nothing else; when the last attempt allowed has failed
\* the call is rejected with the error of that attempt; and every request
\* settles in the end
C22_BoundedRetries ==
    /\ [](rpc # "idle" /\ rpc # "request" =>
            /\ Len(attempts) <= RetriesAllowed(options) + 1
            /\ ("maxRetries" \notin DOMAIN options \/ options.maxRetries = 0 => Len(attempts) <= 1)
            /\ RetryCount(config) = Resends
            /\ (rpc = "catch" =>
                  /\ Len(attempts) = RetriesAllowed(options) + 1
                  /\ \A k \in 1..Len(attempts) : ~attempts[k].ok
                  /\ reply.message[2] = Len(attempts))
            /\ (Settled /\ ~result.success => result.error[2] = Len(attempts)))
    /\ [][IF rpc = "rejected" /\ rpc' = "retryDelay"
          THEN RetryCount(config') = RetryCount(config) + 1
          ELSE rpc # "request" => RetryCount(config') = RetryCount(config)]_vars
    /\ <>Settled

\* two retries were allowed, all three attempts failed, and the call has
\* settled with the error of the third
C22_Witness ==
    /\ Settled
    /\ RetriesAllowed(options) = 2
    /\ Len(attempts) = 3
    /\ RetryCount(config) = 2
    /\ ~result.success
    /\ result.error[2] = 3

(***************************************************************************)
(* C23, C24, C25: the headers that go out.                                 *)
(***************************************************************************)
\* the caller has switched the token off
TokenOff == rpc # "idle" /\ "useToken" \in DOMAIN options /\ options.useToken = FALSE

\* C23: when request() is called with useToken = false, no attempt, neither
\* the first nor a retry, goes out with an Authorization header
C23_NoTokenWhenOff ==
    TokenOff => \A k \in 1..Len(attempts) : "Authorization" \notin DOMAIN attempts[k].headers

\* the Authorization header a request with a token is to carry: the scheme
\* of its token type with the token passed, or else the stored token of
\* that type
ExpectedToken ==
    IF GetOr(options, "tokenValue", "") # "" THEN options.tokenValue
    ELSE IF GetOr(options, "tokenType", "gitea") = "gitea" THEN env.GITEA_TOKEN
    ELSE env.OPENAI_API_KEY

ExpectedAuthorization ==
    << IF GetOr(options, "tokenType", "gitea") = "gitea" THEN "token" ELSE "Bearer",
       ExpectedToken >>

\* the call uses a token and there is one to use
WithToken == rpc # "idle" /\ ~TokenOff /\ ExpectedToken # ""

\* C24: every attempt of a request with a token, the first and each retry,
\* carries the same Authorization header: "token" with the token for type
\* gitea, "Bearer" with it for type openai, the token being the tokenValue
\* passed if there is one and the stored token of the type if not
C24_SameTokenEveryAttempt ==
    WithToken =>
        \A k \in 1..Len(attempts) :
            /\ "Authorization" \in DOMAIN attempts[k].headers
            /\ attempts[k].headers["Authorization"] = ExpectedAuthorization

\* the temporary headers request() marks a call with
MarkerHeaders == {"X-Use-Token", "X-Token-Type", "X-Token-Value"}

\* the path the request interceptor takes for the call
TokenMissing == rpc # "idle" /\ ~TokenOff /\ ExpectedToken = ""

\* C25: the request interceptor removes X-Use-Token, X-Token-Type and
\* X-Token-Value on every path (token used, token missing, token switched
\* off): the config it hands on has none of them, and no attempt that went
\* out carries one
C25_NoMarkerGoesOut ==
    /\ rpc = "dispatch" => DOMAIN config.headers \cap MarkerHeaders = {}
    /\ \A k \in 1..Len(attempts) : DOMAIN attempts[k].headers \cap MarkerHeaders = {}

\* C25 witness: a call with the token switched off, marked with X-Use-Token,
\* went out twice (the send and a retry)
C25_Witness ==
    /\ TokenOff
    /\ "X-Use-Token" \in DOMAIN MarkedHeaders(options)
    /\ Len(attempts) = 2

\* some attempt of the call was answered
SomeAttemptSucceeded == \E k \in 1..Len(attempts) : attempts[k].ok

\* C26: request() never rejects: every call ends with a value returned, which
\* is {success: true, data, status} of the answer when an attempt succeeded
\* and {success: false, error} (with the status when there was a response)
\* only after the first attempt and every retry allowed have failed; a
\* failure has no data and a success no error
C26_NeverRejects ==
    /\ [](rpc \in {"idle", "request", "requestInterceptor", "dispatch", "fulfilled",
                   "rejected", "retryDelay", "catch", "settled"})
    /\ [](Settled =>
            /\ result # Null
            /\ result.success = SomeAttemptSucceeded
            /\ IF result.success
               THEN /\ DOMAIN result = {"success", "data", "status"}
                    /\ attempts[Len(attempts)].ok
                    /\ result.data = reply.data
                    /\ result.status = reply.status
               ELSE /\ "error" \in DOMAIN result
                    /\ DOMAIN result \subseteq {"success", "error", "status"}
                    /\ Len(attempts) = RetriesAllowed(options) + 1
                    /\ \A k \in 1..Len(attempts) : ~attempts[k].ok)
    /\ <>Settled

\* C26 witness: the first attempt failed, the retry was answered, and
\* request() returned the answer
C26_Witness ==
    /\ Settled
    /\ result.success
    /\ Len(attempts) = 2
    /\ ~attempts[1].ok

\* a handler has answered
Answered == hpc = "done"

\* the calls made so far, by name
CallNames == [k \in 1..Len(upstream) |-> upstream[k].call]

\* an answer that lets the code-review handler go on: success with data
Succeeded(k) ==
    /\ upstream[k].answer.success
    /\ "data" \in DOMAIN upstream[k].answer
    /\ upstream[k].call = "getPullRequestDiff" => upstream[k].answer.data # ""

CodeReviewSteps == << "getPullRequest", "getPullRequestDiff", "generateCodeReview" >>

\* the body of the code-review request is an object with both parameters
ParametersGiven ==
    LET body == httpRequest.body
    IN  /\ "repositoryFullName" \in DOMAIN body /\ body["repositoryFullName"] # <<>>
        /\ "pullRequestNumber" \in DOMAIN body /\ body["pullRequestNumber"] # 0

BodyIsObject == DOMAIN httpRequest.body \cap {"invalid", "null"} = {}

\* C27: the code-review POST handler checks the token, then the parameters,
\* then calls getPullRequest, getPullRequestDiff and generateCodeReview in
\* this order, each only after every earlier step succeeded: without a token
\* it answers 401 and with parameters missing 400, both with no call made; a
\* failed pull request or diff call is answered with 500 and the AI service
\* is not called; success is answered only after all three calls succeeded,
\* with pullRequestId the id of the pull request fetched
C27_StepsInOrder ==
    handler = "POST" =>
        /\ CallNames = SubSeq(CodeReviewSteps, 1, Len(upstream))
        /\ \A k \in 2..Len(upstream) : Succeeded(k - 1)
        /\ upstream # <<>> => httpRequest.token # "" /\ BodyIsObject /\ ParametersGiven
        /\ hpc = "getPullRequestDiff" => Len(upstream) = 1 /\ Succeeded(1)
        /\ hpc = "generateCodeReview" => Len(upstream) = 2 /\ Succeeded(1) /\ Succeeded(2)
        /\ Answered =>
              /\ httpRequest.token = "" => httpResponse.status = 401 /\ upstream = <<>>
              /\ httpRequest.token # "" /\ BodyIsObject /\ ~ParametersGiven =>
                    httpResponse.status = 400 /\ upstream = <<>>
              /\ upstream # <<>> /\ ~Succeeded(Len(upstream)) =>
                    /\ httpResponse.status = 500
                    /\ ~httpResponse.body.success
              /\ httpResponse.body.success <=>
                    Len(upstream) = 3 /\ \A k \in 1..3 : Succeeded(k)
              /\ httpResponse.body.success =>
                    /\ httpResponse.status = 200
                    /\ httpResponse.body.data.pullRequestId = upstream[1].answer.data.id
                    /\ upstream[3].title = upstream[1].answer.data.title
                    /\ upstream[3].files = upstream[2].answer.data

\* C27 witness: the pull request was fetched, the diff call failed, and the
\* handler answered 500 with two calls made
C27_Witness ==
    /\ handler = "POST"
    /\ Answered
    /\ Len(upstream) = 2
    /\ Succeeded(1)
    /\ ~upstream[2].answer.success
    /\ httpResponse.status = 500

\* the query of the pull-request-files request has owner, repo and
\* pullNumber, none of them empty
FilesParametersGiven ==
    \A key \in {"owner", "repo", "pullNumber"} :
        key \in DOMAIN httpRequest.query /\ httpRequest.query[key] # <<>>

\* pullNumber starts, after white space and a sign, with a digit of its base
PullNumberIsNumber ==
    /\ "pullNumber" \in DOMAIN httpRequest.query
    /\ ~parseInt(httpRequest.query["pullNumber"]).nan

FormatIsDiff ==
    "format" \in DOMAIN httpRequest.query /\ httpRequest.query["format"] = "diff"

\* C28: the pull-request-files GET handler calls Gitea only for a request
\* with a token, with owner, repo and pullNumber and with a pullNumber that
\* is a number; without a token it answers 401 whatever the parameters are,
\* with a parameter missing or a pullNumber that is no number 400; for a
\* valid request it makes exactly one call, getPullRequestDiff for format
\* diff and getPullRequestFiles for any other, with the number parsed
C28_OneCallWhenValid ==
    handler = "GET" =>
        /\ Len(upstream) <= 1
        /\ upstream # <<>> =>
              /\ httpRequest.token # ""
              /\ FilesParametersGiven
              /\ PullNumberIsNumber
              /\ upstream[1].call = IF FormatIsDiff THEN "getPullRequestDiff"
                                    ELSE "getPullRequestFiles"
              /\ upstream[1].pullNumber = parseInt(httpRequest.query["pullNumber"])
              /\ upstream[1].token = httpRequest.token
        /\ Answered =>
              /\ httpRequest.token = "" => httpResponse.status = 401
              /\ httpRequest.token # "" /\ ~(FilesParametersGiven /\ PullNumberIsNumber) =>
                    httpResponse.status = 400
              /\ httpRequest.token # "" /\ FilesParametersGiven /\ PullNumberIsNumber =>
                    /\ Len(upstream) = 1
                    /\ httpResponse.status = IF upstream[1].answer.success THEN 200 ELSE 500

\* C28 witness: a request with format=diff and pullNumber "12abc", which
\* parses to 12, was answered after the one call of getPullRequestDiff
C28_Witness ==
    /\ handler = "GET"
    /\ Answered
    /\ FormatIsDiff
    /\ Len(upstream) = 1
    /\ upstream[1].call = "getPullRequestDiff"
    /\ upstream[1].pullNumber = Number(12)

\* the first call of getUserRepositories failed, the second was answered
OnlyFallbackSucceeded ==
    /\ Len(upstream) = 2
    /\ ~upstream[1].answer.ok
    /\ upstream[2].answer.ok

\* C29: getUserRepositories calls /repos/search only after /user/repos has
\* failed and never when it succeeded; it returns success with the data of
\* /user/repos, or, when only /repos/search succeeded, with the data member
\* of its answer (the empty list when there is none); when both failed it
\* returns success false with the message of the first error; and it always
\* returns
C29_FallbackAfterPrimary ==
    /\ [](handler = "getUserRepositories" =>
            /\ hpc \in {"primary", "fallback", "done"}
            /\ CallNames = SubSeq(<< "/user/repos", "/repos/search" >>, 1, Len(upstream))
            /\ Len(upstream) = 2 => ~upstream[1].answer.ok
            /\ hpc = "fallback" => Len(upstream) = 1 /\ ~upstream[1].answer.ok
            /\ Answered =>
                  /\ upstream # <<>>
                  /\ upstream[1].answer.ok =>
                        /\ Len(upstream) = 1
                        /\ httpResponse = [success |-> TRUE, data |-> upstream[1].answer.data]
                  /\ OnlyFallbackSucceeded =>
                        /\ httpResponse.success
                        /\ httpResponse.data =
                              IF "data" \in DOMAIN upstream[2].answer.data
                              THEN upstream[2].answer.data.data ELSE <<>>
                  /\ ~upstream[1].answer.ok /\ ~OnlyFallbackSucceeded =>
                        /\ Len(upstream) = 2
                        /\ httpResponse = [success |-> FALSE,
                                           error |-> upstream[1].answer.message])
    /\ (handler = "getUserRepositories") ~> Answered

\* C29 witness: both calls failed and the first error was returned
C29_Witness ==
    /\ handler = "getUserRepositories"
    /\ Answered
    /\ Len(upstream) = 2
    /\ ~upstream[2].answer.ok
    /\ httpResponse.error = "primary error"

====
